---- MODULE Spec2Model ----
(***************************************************************************)
(* Form-filling orchestration layer of GenYoda/Mag-Mutual:                 *)
(* QuestionProcessor, ChatbotAdapter, ContextManager, SectionMemory,       *)
(* AnswerFormatter and ParallelProcessor, driven by FormFiller.run.        *)
(*                                                                         *)
(* Python strings are sequences of one-character strings, so that          *)
(* lower(), substring tests and equality behave as in the code.            *)
(* A question id such as "7.1" is such a string too; split('.') and int()   *)
(* take it apart where the code does.                                      *)
(***************************************************************************)
EXTENDS Integers, Sequences, FiniteSets, TLC

VARIABLES
    raw_questions,      \* _load_questions: raw_questions, the list found in the questions file
    all_questions,      \* QuestionProcessor.all_questions
    questions_by_page,  \* QuestionProcessor.questions_by_page (page -> indices into all_questions)
    credentials,        \* Azure OpenAI credentials present in the environment
    faiss_index,        \* SimpleRAGChatbot.faiss_index is loaded
    pc,                 \* position of FormFiller.run: "load", "adapter", "begin", "pages",
                        \* "page", "done", or the exception that ended it
    page_numbers,       \* process_all_pages: page_numbers
    page_counter,       \* process_all_pages: page_counter
    current_section,    \* process_all_pages: current_section
    page_pos,           \* process_page: position of the loop over page_questions
    answered,           \* process_page: answered
    all_results,        \* process_all_pages: all_results
    mem_section,        \* SectionMemory.current_section
    mem_answers,        \* SectionMemory.answers
    stats,              \* ParallelProcessor.stats
    in_flight,          \* answer-service calls that have not returned yet
    started,            \* history: questions whose _answer_question has begun, in order
    asked,              \* history: number of answer-service calls made
    context_injection,  \* config.ENABLE_CONTEXT_INJECTION as configured for the run
    last_call,          \* component exercise: the last call made on a component and its result
    written             \* history: per question id, the answer last passed to add_answer
                        \* since the memory was last emptied

vars == <<raw_questions, all_questions, questions_by_page, credentials, faiss_index,
          pc, page_numbers, page_counter, current_section, page_pos, answered,
          all_results, mem_section, mem_answers, stats, in_flight, started, asked,
          context_injection, last_call, written>>

----------------------------------------------------------------------------
(* Bounds of the exploration *)

MaxQuestions == 2
MaxPage == 2

----------------------------------------------------------------------------
(* Strings *)

UpperToLower ==
    [A |-> "a", B |-> "b", C |-> "c", D |-> "d", E |-> "e", F |-> "f", G |-> "g",
     H |-> "h", I |-> "i", J |-> "j", K |-> "k", L |-> "l", M |-> "m", N |-> "n",
     O |-> "o", P |-> "p", Q |-> "q", R |-> "r", S |-> "s", T |-> "t", U |-> "u",
     V |-> "v", W |-> "w", X |-> "x", Y |-> "y", Z |-> "z"]

\* str.lower()
Lower(s) == [i \in 1..Len(s) |-> IF s[i] \in DOMAIN UpperToLower THEN UpperToLower[s[i]] ELSE s[i]]

\* sub in s
Contains(sub, s) ==
    \E i \in 0..(Len(s) - Len(sub)) : SubSeq(s, i + 1, i + Len(sub)) = sub

NOT_FOUND == <<"N","O","T","_","F","O","U","N","D">>
SKIPPED   == <<"S","K","I","P","P","E","D">>
NotFoundText == <<"N","o","t"," ","F","o","u","n","d">>
EmptyText == <<>>
YesText == <<"Y","e","s">>
NoText  == <<"N","o">>
RatingThreeText == <<"R","A","T","I","N","G",":"," ","3">>

----------------------------------------------------------------------------
(* Answer values: a Python str, int, or the dual-rating dict.              *)
(* In a dict value a rating of 0 stands for the entry 'Not Found'.         *)

StrVal(s)     == [kind |-> "str",  s |-> s,    n |-> 0, degree_alleged |-> 0, degree_suffered |-> 0]
IntVal(n)     == [kind |-> "int",  s |-> <<>>, n |-> n, degree_alleged |-> 0, degree_suffered |-> 0]
DictVal(a, b) == [kind |-> "dict", s |-> <<>>, n |-> 0, degree_alleged |-> a, degree_suffered |-> b]

NoVal         == [kind |-> "none", s |-> <<>>, n |-> 0, degree_alleged |-> 0, degree_suffered |-> 0]

\* value == 'literal'
IsStr(v, s) == v.kind = "str" /\ v.s = s

----------------------------------------------------------------------------
(* Questions as delivered by the extraction step *)

None == "<None>"     \* Python None where a section name is expected

NoConditional == [present |-> FALSE, parent_question_id |-> <<>>, parent_response_values |-> <<>>]
Conditional(parent, values) ==
    [present |-> TRUE, parent_question_id |-> parent, parent_response_values |-> values]

RatingOptions(n) == [i \in 1..n |-> <<"o", "p", "t">>]

Question(id, type, options, cond, section, page) ==
    [question_id |-> id, main_question |-> <<"q">>, question_type |-> type,
     section_name |-> section, page_number |-> page, response_options |-> options,
     requires_explanation |-> FALSE, conditional_display |-> cond]

Sections == {"A", "B"}
Pages == 0..MaxPage          \* 0 stands for a missing, null or zero page_number

\* the shapes a question takes: a top-level free-text question and a
\* sub-question displayed only when its parent was answered "Yes" ...
TextShapes ==
    { [id |-> <<"7">>, type |-> "text", options |-> <<>>, cond |-> NoConditional],
      [id |-> <<"7", ".", "1">>, type |-> "text", options |-> <<>>, cond |-> Conditional(<<"7">>, <<YesText>>)] }

\* ... and top-level rating questions, single and dual, and a dual rating
\* delivered without its options
RatingShapes ==
    { [id |-> <<"7">>, type |-> "rating_scale_1_to_5", options |-> RatingOptions(5), cond |-> NoConditional],
      [id |-> <<"7">>, type |-> "rating_scale_1_to_9", options |-> RatingOptions(9), cond |-> NoConditional],
      [id |-> <<"7">>, type |-> "rating_scale_1_to_9", options |-> <<>>, cond |-> NoConditional] }

\* text questions are explored in every section and on every page, rating
\* questions on the first page of section "A"
QuestionPool ==
    { Question(sh.id, sh.type, sh.options, sh.cond, sec, pg) :
        sh \in TextShapes, sec \in Sections, pg \in Pages }
    \cup { Question(sh.id, sh.type, sh.options, sh.cond, "A", 1) : sh \in RatingShapes }

\* an item of the list in the file: a JSON object (a question), or anything
\* else (a string such as an embedded image, a nested list)
Dict(question) == [type |-> "dict", question |-> question]
NonDict(type) == [type |-> type, question |-> Question(<<>>, "", <<>>, NoConditional, "", 0)]

QuestionLists == UNION { [1..n -> {Dict(q) : q \in QuestionPool}] : n \in 0..MaxQuestions }

----------------------------------------------------------------------------
(* QuestionProcessor *)

\* a loader that gives up the rest of the list at the first non-dict item
RECURSIVE _load_questions_until_non_dict(_)
_load_questions_until_non_dict(items) ==
    IF items = <<>> \/ Head(items).type # "dict" THEN <<>>
    ELSE <<Head(items).question>> \o _load_questions_until_non_dict(Tail(items))

\* _load_questions: `if isinstance(item, dict): self.all_questions.append(item)`,
\* any other item is counted and reported
RECURSIVE _load_questions(_)
_load_questions(items) ==
    IF items = <<>> THEN <<>>
    ELSE (IF Head(items).type = "dict" THEN <<Head(items).question>> ELSE <<>>)
         \o _load_questions(Tail(items))

\* _load_questions: the loop that files each question under its page
\* (`if page:` leaves out a question whose page_number is falsy)
PagesOf(questions) ==
    { questions[i].page_number : i \in { j \in 1..Len(questions) : questions[j].page_number # 0 } }

RECURSIVE IndicesOnPage(_, _, _)
IndicesOnPage(questions, page, i) ==
    IF i > Len(questions) THEN <<>>
    ELSE (IF questions[i].page_number = page THEN <<i>> ELSE <<>>)
         \o IndicesOnPage(questions, page, i + 1)

GroupByPage(questions) ==
    [p \in PagesOf(questions) |-> IndicesOnPage(questions, p, 1)]

\* the keys in descending order
RECURSIVE SortedSeqDescending(_)
SortedSeqDescending(S) ==
    IF S = {} THEN <<>>
    ELSE LET m == CHOOSE x \in S : \A y \in S : x >= y
         IN <<m>> \o SortedSeqDescending(S \ {m})

\* get_page_numbers: sorted(self.questions_by_page.keys())
RECURSIVE SortedSeq(_)
SortedSeq(S) ==
    IF S = {} THEN <<>>
    ELSE LET m == CHOOSE x \in S : \A y \in S : x <= y
         IN <<m>> \o SortedSeq(S \ {m})

get_page_numbers(by_page) == SortedSeq(DOMAIN by_page)

----------------------------------------------------------------------------
(* SectionMemory: [current_section, answers]; answers is the dict as the    *)
(* sequence of its values in insertion order, one entry per question id.    *)

AnsweredQuestion(question, answer) ==
    [question_id |-> question.question_id, question_text |-> question.main_question,
     answer |-> answer, question_type |-> question.question_type,
     section_name |-> question.section_name]

\* clear that forgets the section name and keeps the answers
clear_section_only(mem) == [mem EXCEPT !.current_section = None]

\* SectionMemory.clear
clear(mem) == [current_section |-> None, answers |-> <<>>]

\* set_section that switches the name without clearing
set_section_keeps(mem, section_name) == [mem EXCEPT !.current_section = section_name]

\* set_section that clears whatever the name
set_section_always_clears(mem, section_name) ==
    [clear(mem) EXCEPT !.current_section = section_name]

\* SectionMemory.set_section
set_section(mem, section_name) ==
    IF mem.current_section # section_name
    THEN [clear(mem) EXCEPT !.current_section = section_name]
    ELSE mem

HasAnswer(mem, id) == \E i \in 1..Len(mem.answers) : mem.answers[i].question_id = id

\* add_answer on a list of entries instead of a dict
add_answer_appends(mem, question, answer) ==
    [mem EXCEPT !.answers = Append(mem.answers, AnsweredQuestion(question, answer))]

\* SectionMemory.add_answer: self.answers[question_id] = answered_q
add_answer(mem, question, answer) ==
    LET aq == AnsweredQuestion(question, answer) IN
    IF HasAnswer(mem, aq.question_id)
    THEN [mem EXCEPT !.answers =
            [i \in 1..Len(mem.answers) |->
                IF mem.answers[i].question_id = aq.question_id THEN aq ELSE mem.answers[i]]]
    ELSE [mem EXCEPT !.answers = Append(mem.answers, aq)]

\* SectionMemory.get_answer (only called where HasAnswer holds)
get_answer(mem, id) ==
    mem.answers[CHOOSE i \in 1..Len(mem.answers) : mem.answers[i].question_id = id]

\* get_answers_by_ids that stops at the first id without an answer
RECURSIVE get_answers_by_ids_until_missing(_, _)
get_answers_by_ids_until_missing(mem, question_ids) ==
    IF question_ids = <<>> \/ ~HasAnswer(mem, Head(question_ids)) THEN <<>>
    ELSE <<get_answer(mem, Head(question_ids))>>
         \o get_answers_by_ids_until_missing(mem, Tail(question_ids))

\* SectionMemory.get_answers_by_ids
RECURSIVE get_answers_by_ids(_, _)
get_answers_by_ids(mem, question_ids) ==
    IF question_ids = <<>> THEN <<>>
    ELSE (IF HasAnswer(mem, Head(question_ids))
          THEN <<get_answer(mem, Head(question_ids))>> ELSE <<>>)
         \o get_answers_by_ids(mem, Tail(question_ids))

----------------------------------------------------------------------------
(* ContextManager.should_skip_question                                      *)
(* result: raises (AttributeError of .lower() on a non-str answer), or      *)
(* (skip, reason); the reason names the parent, its answer and the values.  *)

NoReason == [parent |-> <<>>, answer |-> StrVal(<<>>), needed |-> <<>>]
DontSkip == [raises |-> FALSE, skip |-> FALSE, reason |-> NoReason]

\* a check that treats a parent without an answer as a parent that does not match
should_skip_question_unanswered(mem, question) ==
    LET conditional == question.conditional_display
        parent_id == conditional.parent_question_id
        required_values == conditional.parent_response_values
        matches == /\ HasAnswer(mem, parent_id)
                   /\ \E k \in 1..Len(required_values) :
                         Contains(Lower(required_values[k]), Lower(get_answer(mem, parent_id).answer.s))
    IN  IF ~conditional.present \/ parent_id = <<>> \/ required_values = <<>> \/ matches
        THEN DontSkip
        ELSE [raises |-> FALSE, skip |-> TRUE,
              reason |-> [parent |-> parent_id, answer |-> StrVal(<<>>), needed |-> required_values]]

should_skip_question(mem, question) ==
    LET conditional == question.conditional_display
        parent_id == conditional.parent_question_id
        required_values == conditional.parent_response_values
    IN  IF ~conditional.present THEN DontSkip
        ELSE IF parent_id = <<>> \/ required_values = <<>> THEN DontSkip
        ELSE IF ~HasAnswer(mem, parent_id) THEN DontSkip
        ELSE LET parent_answered == get_answer(mem, parent_id) IN
             IF parent_answered.answer.kind # "str"
             THEN [raises |-> TRUE, skip |-> FALSE, reason |-> NoReason]
             ELSE IF \E k \in 1..Len(required_values) :
                        Contains(Lower(required_values[k]), Lower(parent_answered.answer.s))
                  THEN DontSkip
                  ELSE [raises |-> FALSE, skip |-> TRUE,
                        reason |-> [parent |-> parent_id, answer |-> parent_answered.answer,
                                    needed |-> required_values]]

----------------------------------------------------------------------------
(* QuestionAnalyzer *)

IsDigit(c) == c \in {"0","1","2","3","4","5","6","7","8","9"}
DigitVal(c) == CASE c = "0" -> 0 [] c = "1" -> 1 [] c = "2" -> 2 [] c = "3" -> 3 [] c = "4" -> 4
                 [] c = "5" -> 5 [] c = "6" -> 6 [] c = "7" -> 7 [] c = "8" -> 8 [] c = "9" -> 9
IsSpace(c) == c \in {" ", "\n", "\t"}
IsWordChar(c) == IsDigit(c) \/ c = "_" \/ c \in DOMAIN UpperToLower
                 \/ c \in { UpperToLower[u] : u \in DOMAIN UpperToLower }

\* length of the longest run of characters satisfying a class, from position i
RECURSIVE DigitRun(_, _)
DigitRun(s, i) == IF i <= Len(s) /\ IsDigit(s[i]) THEN 1 + DigitRun(s, i + 1) ELSE 0
RECURSIVE SpaceRun(_, _)
SpaceRun(s, i) == IF i <= Len(s) /\ IsSpace(s[i]) THEN 1 + SpaceRun(s, i + 1) ELSE 0

\* int() of a run of decimal digits
RECURSIVE DigitsValue(_)
DigitsValue(d) == IF d = <<>> THEN 0 ELSE 10 * DigitsValue(SubSeq(d, 1, Len(d) - 1)) + DigitVal(d[Len(d)])

\* int(s): white space around it stripped, an optional sign, then decimal
\* digits; anything else is a ValueError
RECURSIVE TrailingSpaceRun(_, _)
TrailingSpaceRun(s, i) == IF i >= 1 /\ IsSpace(s[i]) THEN 1 + TrailingSpaceRun(s, i - 1) ELSE 0
Strip(s) ==
    IF SpaceRun(s, 1) = Len(s) THEN <<>>
    ELSE SubSeq(s, 1 + SpaceRun(s, 1), Len(s) - TrailingSpaceRun(s, Len(s)))
Unsigned(s) == IF s # <<>> /\ s[1] \in {"+", "-"} THEN Tail(s) ELSE s
IntParses(s) ==
    LET d == Unsigned(Strip(s)) IN d # <<>> /\ DigitRun(d, 1) = Len(d)
IntOf(s) ==
    LET t == Strip(s) IN
    IF t[1] = "-" THEN 0 - DigitsValue(Unsigned(t)) ELSE DigitsValue(Unsigned(t))

\* str.split('.')
RECURSIVE Split(_)
Split(s) ==
    IF ~\E i \in 1..Len(s) : s[i] = "." THEN <<s>>
    ELSE LET d == CHOOSE i \in 1..Len(s) : s[i] = "." /\ \A j \in 1..(i - 1) : s[j] # "."
         IN <<SubSeq(s, 1, d - 1)>> \o Split(SubSeq(s, d + 1, Len(s)))

\* '.'.join(parts)
RECURSIVE JoinDots(_)
JoinDots(parts) ==
    IF parts = <<>> THEN <<>>
    ELSE IF Len(parts) = 1 THEN parts[1]
    ELSE parts[1] \o <<".">> \o JoinDots(Tail(parts))

\* a chain that ends with the id itself
extract_parent_chain_with_self(question_id) ==
    LET parts == Split(question_id) IN
    [i \in 1..Len(parts) |-> JoinDots(SubSeq(parts, 1, i))]

\* extract_parent_chain: '.'.join(parts[:i+1]) for i in range(len(parts) - 1)
extract_parent_chain(question_id) ==
    LET parts == Split(question_id) IN
    IF Len(parts) = 1 THEN <<>>
    ELSE [i \in 1..(Len(parts) - 1) |-> JoinDots(SubSeq(parts, 1, i))]

\* is_sub_question: '.' in question_id
is_sub_question(question_id) == Contains(<<".">>, question_id)

\* RANGE_PATTERNS as sequences of elements: a literal (matched ignoring
\* case), an optional literal, \s+, or a captured (\d+)
Lit(v) == [t |-> "lit", v |-> v]
Opt(v) == [t |-> "opt", v |-> v]
Ws     == [t |-> "ws",  v |-> <<>>]
Num    == [t |-> "num", v |-> <<>>]
RANGE_PATTERNS ==
    << <<Lit(<<"q">>), Num, Lit(<<"-">>), Num>>,
       <<Lit(<<"q">>), Num, Ws, Lit(<<"t","o">>), Ws, Opt(<<"q">>), Num>>,
       <<Lit(<<"q","u","e","s","t","i","o","n">>), Opt(<<"s">>), Ws, Num, Ws, Lit(<<"t","h","r","o","u","g","h">>), Ws, Num>>,
       <<Lit(<<"q","u","e","s","t","i","o","n">>), Ws, Num, Ws, Lit(<<"t","o">>), Ws, Lit(<<"q","u","e","s","t","i","o","n">>), Ws, Num>> >>

NoMatch == [ok |-> FALSE, groups |-> <<>>]

\* re.match of a pattern at position i of s
RECURSIVE MatchAt(_, _, _)
MatchAt(pat, s, i) ==
    IF pat = <<>> THEN [ok |-> TRUE, groups |-> <<>>]
    ELSE LET e == Head(pat)
             litHere == i + Len(e.v) - 1 <= Len(s)
                        /\ Lower(SubSeq(s, i, i + Len(e.v) - 1)) = e.v
         IN CASE e.t = "lit" -> IF litHere THEN MatchAt(Tail(pat), s, i + Len(e.v)) ELSE NoMatch
              [] e.t = "opt" -> IF litHere THEN MatchAt(Tail(pat), s, i + Len(e.v))
                                ELSE MatchAt(Tail(pat), s, i)
              [] e.t = "ws"  -> IF SpaceRun(s, i) > 0 THEN MatchAt(Tail(pat), s, i + SpaceRun(s, i))
                                ELSE NoMatch
              [] e.t = "num" -> IF DigitRun(s, i) > 0
                                THEN LET rest == MatchAt(Tail(pat), s, i + DigitRun(s, i)) IN
                                     IF rest.ok
                                     THEN [ok |-> TRUE,
                                           groups |-> <<SubSeq(s, i, i + DigitRun(s, i) - 1)>> \o rest.groups]
                                     ELSE NoMatch
                                ELSE NoMatch

\* re.search: the leftmost position at which the pattern matches
Search(pat, s) ==
    IF \E i \in 1..Len(s) : MatchAt(pat, s, i).ok
    THEN MatchAt(pat, s, CHOOSE i \in 1..Len(s) :
                            MatchAt(pat, s, i).ok /\ \A j \in 1..(i - 1) : ~MatchAt(pat, s, j).ok)
    ELSE NoMatch

\* parse_question_range: the first pattern that matches anywhere in the text
RECURSIVE FirstRange(_, _)
FirstRange(pats, text) ==
    IF pats = <<>> THEN NoMatch
    ELSE IF Search(Head(pats), text).ok THEN Search(Head(pats), text)
    ELSE FirstRange(Tail(pats), text)

parse_question_range(question_text) == FirstRange(RANGE_PATTERNS, question_text)

SYNTHESIS_KEYWORDS ==
    << <<"a","d","d","i","t","i","o","n","a","l"," ","i","n","s","i","g","h","t","s">>,
       <<"p","r","o","v","i","d","e"," ","a","n","y">>,
       <<"s","u","m","m","a","r","i","z","e">>,
       <<"o","v","e","r","a","l","l">>,
       <<"i","n"," ","s","u","m","m","a","r","y">>,
       <<"a","d","d","i","t","i","o","n","a","l"," ","i","n","f","o","r","m","a","t","i","o","n">>,
       <<"a","d","d","i","t","i","o","n","a","l"," ","c","o","n","t","e","x","t">>,
       <<"a","n","y"," ","o","t","h","e","r">>,
       <<"f","u","r","t","h","e","r"," ","d","e","t","a","i","l","s">> >>

\* is_synthesis_question
is_synthesis_question(question_text) ==
    \E k \in 1..Len(SYNTHESIS_KEYWORDS) : Contains(SYNTHESIS_KEYWORDS[k], Lower(question_text))

----------------------------------------------------------------------------
(* SectionMemory: ordered reads *)

\* the elements of a sort key: an int, or float('inf')
Finite(n) == [inf |-> FALSE, n |-> n]
Infinity  == [inf |-> TRUE,  n |-> 0]
NumLess(x, y) == IF x.inf THEN FALSE ELSE IF y.inf THEN TRUE ELSE x.n < y.n

\* Python compares tuples lexicographically, a proper prefix being smaller
RECURSIVE TupleLess(_, _)
TupleLess(a, b) ==
    IF b = <<>> THEN FALSE
    ELSE IF a = <<>> THEN TRUE
    ELSE IF Head(a) # Head(b) THEN NumLess(Head(a), Head(b))
    ELSE TupleLess(Tail(a), Tail(b))

\* a sort key that compares the ids as text, character by character
CharCode(c) == CASE c = "." -> 46 [] IsDigit(c) -> 48 + DigitVal(c) [] OTHER -> 120
_sort_key_text(question_id) ==
    [i \in 1..Len(question_id) |-> Finite(CharCode(question_id[i]))]

\* _sort_key: tuple(int(x) for x in question_id.split('.')), and
\* (float('inf'),) when a segment is not an integer
_sort_key(question_id) ==
    LET parts == Split(question_id) IN
    IF \A i \in 1..Len(parts) : IntParses(parts[i])
    THEN [i \in 1..Len(parts) |-> Finite(IntOf(parts[i]))]
    ELSE <<Infinity>>

\* list.sort(key=_sort_key of the id): stable insertion sort
RECURSIVE InsertByKey(_, _)
InsertByKey(sorted, x) ==
    IF sorted = <<>> THEN <<x>>
    ELSE IF TupleLess(_sort_key(x.question_id), _sort_key(Head(sorted).question_id))
         THEN <<x>> \o sorted
         ELSE <<Head(sorted)>> \o InsertByKey(Tail(sorted), x)

RECURSIVE SortByKey(_)
SortByKey(xs) ==
    IF xs = <<>> THEN <<>>
    ELSE InsertByKey(SortByKey(SubSeq(xs, 1, Len(xs) - 1)), xs[Len(xs)])

\* a range read that leaves out the entries at the upper bound
get_answers_in_range_exclusive(mem, start_id, end_id) ==
    IF ~IntParses(start_id) \/ ~IntParses(end_id) THEN <<>>
    ELSE SortByKey(SelectSeq(mem.answers,
            LAMBDA a : /\ IntParses(Split(a.question_id)[1])
                       /\ IntOf(start_id) <= IntOf(Split(a.question_id)[1])
                       /\ IntOf(Split(a.question_id)[1]) < IntOf(end_id)))

\* get_answers_in_range: [] when a bound is not an integer; an entry whose
\* first segment is not an integer is passed over
get_answers_in_range(mem, start_id, end_id) ==
    IF ~IntParses(start_id) \/ ~IntParses(end_id) THEN <<>>
    ELSE LET start_num == IntOf(start_id)
             end_num == IntOf(end_id)
             in_range(a) ==
                 LET base == Split(a.question_id)[1] IN
                 IntParses(base) /\ start_num <= IntOf(base) /\ IntOf(base) <= end_num
         IN SortByKey(SelectSeq(mem.answers, in_range))

\* get_all_answers
get_all_answers(mem) == SortByKey(mem.answers)

----------------------------------------------------------------------------
(* ContextManager.get_context: the context string as its header and the     *)
(* answers it lists; kind "none" is Python None.                            *)

NoContext == [kind |-> "none", from |-> <<>>, to |-> <<>>, entries |-> <<>>]
Context(kind, from, to, entries) ==
    IF entries = <<>> THEN NoContext
    ELSE [kind |-> kind, from |-> from, to |-> to, entries |-> entries]

\* _format_parent_context
_format_parent_context(mem, parent_ids) ==
    Context("chain", <<>>, <<>>, get_answers_by_ids(mem, parent_ids))

\* _format_range_context
_format_range_context(mem, start_id, end_id) ==
    Context("range", start_id, end_id, get_answers_in_range(mem, start_id, end_id))

\* _format_section_context
_format_section_context(mem) == Context("section", <<>>, <<>>, get_all_answers(mem))

\* a lookup that tries the range reference before the parent chain
get_context_range_first(mem, question) ==
    LET question_id == question.question_id
        question_text == question.main_question
        range_match == parse_question_range(question_text)
    IN  IF range_match.ok
        THEN _format_range_context(mem, range_match.groups[1], range_match.groups[2])
        ELSE IF is_sub_question(question_id)
        THEN _format_parent_context(mem, extract_parent_chain(question_id))
        ELSE IF is_synthesis_question(question_text)
        THEN _format_section_context(mem)
        ELSE NoContext

get_context(mem, question) ==
    LET question_id == question.question_id
        question_text == question.main_question
        range_match == parse_question_range(question_text)
    IN  IF is_sub_question(question_id)
        THEN _format_parent_context(mem, extract_parent_chain(question_id))
        ELSE IF range_match.ok
        THEN _format_range_context(mem, range_match.groups[1], range_match.groups[2])
        ELSE IF is_synthesis_question(question_text)
        THEN _format_section_context(mem)
        ELSE NoContext

----------------------------------------------------------------------------
(* AnswerFormatter *)

\* ', '.join(parts)
RECURSIVE Join(_)
Join(parts) ==
    IF parts = <<>> THEN <<>>
    ELSE IF Len(parts) = 1 THEN parts[1]
    ELSE parts[1] \o <<",", " ">> \o Join(Tail(parts))

\* _extract_option_fast: the first option found in the first 100 characters
_extract_option_fast(answer_text, response_options) ==
    IF answer_text = <<>> \/ response_options = <<>> THEN NotFoundText
    ELSE LET first_part == Lower(SubSeq(answer_text, 1,
                                 IF Len(answer_text) < 100 THEN Len(answer_text) ELSE 100))
             hits == { k \in 1..Len(response_options) :
                         Contains(Lower(response_options[k]), first_part) }
         IN IF hits = {} THEN NotFoundText
            ELSE response_options[CHOOSE k \in hits : \A j \in hits : k <= j]

\* a selection listed in the order in which the options appear in the text
RECURSIVE ByFirstOccurrence(_, _)
ByFirstOccurrence(text, todo) ==
    IF todo = {} THEN <<>>
    ELSE LET at(o) == CHOOSE i \in 0..Len(text) :
                         /\ SubSeq(text, i + 1, i + Len(o)) = Lower(o)
                         /\ \A j \in 0..(i - 1) : SubSeq(text, j + 1, j + Len(o)) # Lower(o)
             o1 == CHOOSE o \in todo : \A o2 \in todo : at(o) <= at(o2)
         IN <<o1>> \o ByFirstOccurrence(text, todo \ {o1})
_extract_multiple_options_text_order(answer_text, response_options) ==
    IF answer_text = <<>> \/ response_options = <<>> THEN <<>>
    ELSE ByFirstOccurrence(Lower(answer_text),
            { response_options[k] : k \in { j \in 1..Len(response_options) :
                  Contains(Lower(response_options[j]), Lower(answer_text)) } })

\* _extract_multiple_options: every option found in the text, in option order
_extract_multiple_options(answer_text, response_options) ==
    IF answer_text = <<>> \/ response_options = <<>> THEN <<>>
    ELSE SelectSeq(response_options, LAMBDA o : Contains(Lower(o), Lower(answer_text)))

\* the tuple _parse_rating_response returns; rating 0 is 'Not Found'
NoRating(explanation) == [rating |-> 0, option |-> <<>>, explanation |-> explanation]

\* str(n) of an int n >= 0
RECURSIVE Decimal(_)
Decimal(n) ==
    LET digit == CASE n % 10 = 0 -> "0" [] n % 10 = 1 -> "1" [] n % 10 = 2 -> "2"
                   [] n % 10 = 3 -> "3" [] n % 10 = 4 -> "4" [] n % 10 = 5 -> "5"
                   [] n % 10 = 6 -> "6" [] n % 10 = 7 -> "7" [] n % 10 = 8 -> "8"
                   [] n % 10 = 9 -> "9"
    IN IF n < 10 THEN <<digit>> ELSE Decimal(n \div 10) \o <<digit>>

\* f'Invalid rating: {rating_number}'
InvalidRating(n) ==
    <<"I","n","v","a","l","i","d"," ","r","a","t","i","n","g",":"," ">> \o Decimal(n)

\* the explanation: re.search(r'EXPLANATION:\s*(.+)', DOTALL | IGNORECASE)
\* matches at the leftmost marker that has a character after it, and the
\* group, stripped, is the stripped rest of the text; without a match it
\* is the stripped text after the first line
ExplanationOf(s) ==
    LET marker == <<"e","x","p","l","a","n","a","t","i","o","n",":">>
        ms == { i \in 1..(Len(s) - 12) : Lower(SubSeq(s, i, i + 11)) = marker }
        nl == { i \in 1..Len(s) : s[i] = "\n" }
        first(S) == CHOOSE i \in S : \A j \in S : i <= j
    IN IF ms # {} THEN Strip(SubSeq(s, first(ms) + 12, Len(s)))
       ELSE IF nl # {} THEN Strip(SubSeq(s, first(nl) + 1, Len(s)))
       ELSE <<>>

\* re.search(r'RATING:\s*(\d+)'): leftmost "rating:", any whitespace, digits
RatingMatchAt(s, i) ==
    LET j == i + 7 IN
    IF i + 6 <= Len(s) /\ Lower(SubSeq(s, i, i + 6)) = <<"r","a","t","i","n","g",":">>
       /\ DigitRun(s, j + SpaceRun(s, j)) > 0
    THEN [ok |-> TRUE,
          groups |-> <<SubSeq(s, j + SpaceRun(s, j),
                              j + SpaceRun(s, j) + DigitRun(s, j + SpaceRun(s, j)) - 1)>>]
    ELSE NoMatch

\* re.search(r'\b([1-9])\b'): a digit 1-9 with no word character on either side
StandaloneDigitAt(s, i) ==
    /\ IsDigit(s[i]) /\ s[i] # "0"
    /\ (i = 1 \/ ~IsWordChar(s[i - 1]))
    /\ (i = Len(s) \/ ~IsWordChar(s[i + 1]))

\* a parse that takes any rating it reads, whatever the number of options
_parse_rating_response_unchecked(llm_response, response_options) ==
    IF llm_response = <<>> \/ llm_response = NOT_FOUND THEN NoRating(<<>>)
    ELSE LET rs == { i \in 1..Len(llm_response) : RatingMatchAt(llm_response, i).ok }
             fs == { i \in 1..Len(llm_response) : StandaloneDigitAt(llm_response, i) }
             first(S) == CHOOSE i \in S : \A j \in S : i <= j
             n == IF rs # {} THEN DigitsValue(RatingMatchAt(llm_response, first(rs)).groups[1])
                  ELSE DigitVal(llm_response[first(fs)])
         IN IF rs = {} /\ fs = {} THEN NoRating(<<>>)
            ELSE [rating |-> n,
                  option |-> IF n \in 1..Len(response_options) THEN response_options[n] ELSE <<>>,
                  explanation |-> ExplanationOf(llm_response)]

\* _parse_rating_response: the tuple (rating_number, rating_option, explanation)
_parse_rating_response(llm_response, response_options) ==
    IF llm_response = <<>> \/ llm_response = NOT_FOUND THEN NoRating(<<>>)
    ELSE LET rs == { i \in 1..Len(llm_response) : RatingMatchAt(llm_response, i).ok }
             fs == { i \in 1..Len(llm_response) : StandaloneDigitAt(llm_response, i) }
             first(S) == CHOOSE i \in S : \A j \in S : i <= j
             found == rs # {} \/ fs # {}
             rating_number ==
                 IF rs # {} THEN DigitsValue(RatingMatchAt(llm_response, first(rs)).groups[1])
                 ELSE DigitVal(llm_response[first(fs)])
         IN IF ~found THEN NoRating(<<>>)
            ELSE IF rating_number < 1 \/ rating_number > Len(response_options)
                 THEN NoRating(InvalidRating(rating_number))
            ELSE [rating |-> rating_number, option |-> response_options[rating_number],
                  explanation |-> ExplanationOf(llm_response)]

RatingVal(n) == IF n = 0 THEN StrVal(NotFoundText) ELSE IntVal(n)

\* the raw answer handed to format_answer: a str, or for the dual rating the
\* dict {'alleged': ..., 'suffered': ...}
RawText(t)    == [is_dict |-> FALSE, text |-> t, alleged |-> <<>>, suffered |-> <<>>]
RawDual(a, b) == [is_dict |-> TRUE, text |-> <<>>, alleged |-> a, suffered |-> b]

\* _extract_rating_1_to_9
_extract_rating_1_to_9(answer, response_options) ==
    IF ~answer.is_dict THEN DictVal(0, 0)
    ELSE DictVal(_parse_rating_response(answer.alleged, response_options).rating,
                 _parse_rating_response(answer.suffered, response_options).rating)

\* _extract_rating_1_to_5
_extract_rating_1_to_5(answer, response_options) ==
    RatingVal(_parse_rating_response(answer.text, response_options).rating)

\* format_answer: the 'answer' of the formatted result
format_answer(answer, question_type, response_options) ==
    IF response_options = <<>>
    THEN (IF answer.text # NOT_FOUND THEN StrVal(answer.text) ELSE StrVal(NotFoundText))
    ELSE IF question_type = "checkbox_group"
    THEN LET selected_options == _extract_multiple_options(answer.text, response_options) IN
         IF selected_options # <<>> THEN StrVal(Join(selected_options)) ELSE StrVal(NotFoundText)
    ELSE IF question_type = "rating_scale_1_to_9"
    THEN _extract_rating_1_to_9(answer, response_options)
    ELSE IF question_type = "rating_scale_1_to_5"
    THEN _extract_rating_1_to_5(answer, response_options)
    ELSE StrVal(_extract_option_fast(answer.text, response_options))

----------------------------------------------------------------------------
(* The answer service and ChatbotAdapter.ask *)

ENABLE_CONTEXT_INJECTION == TRUE

\* what SimpleRAGChatbot.ask does with one query: it raises, or returns the
\* generated text with the retrieved chunks (their L2 distance in hundredths)
Failure == [fails |-> TRUE, answer |-> <<>>, sources |-> <<>>]
Reply(answer, sources) == [fails |-> FALSE, answer |-> answer, sources |-> sources]

\* the replies explored, each with one retrieved chunk: for a rating prompt
\* a rating (from a chunk at distance 0.25 or 0.5), for any other prompt a
\* plain answer or an empty text
SourceLists == {<<25>>}
RatingSourceLists == {<<25>>, <<50>>}
ServiceAnswers(question) ==
    IF question.question_type \in {"rating_scale_1_to_5", "rating_scale_1_to_9"}
    THEN {RatingThreeText}
    ELSE {EmptyText, YesText, NoText}
ServiceOutcomes(question) ==
    {Failure} \cup
    { Reply(a, src) : a \in ServiceAnswers(question),
                      src \in IF question.question_type \in {"rating_scale_1_to_5", "rating_scale_1_to_9"}
                              THEN RatingSourceLists ELSE SourceLists }

\* similarity = (1.0 / (1.0 + distance)) * 100, in hundredths of a percent
Similarity(distance) == (100 * 100 * 100) \div (100 + distance)

\* ChatbotAdapter.ask: any exception of the call becomes the NOT_FOUND result
ask(creds, index, outcome) ==
    IF ~creds \/ ~index \/ outcome.fails
    THEN [answer |-> NOT_FOUND, sources |-> <<>>, success |-> FALSE]
    ELSE [answer |-> IF outcome.answer # <<>> THEN outcome.answer ELSE NOT_FOUND,
          sources |-> [i \in 1..Len(outcome.sources) |->
                          [distance |-> outcome.sources[i],
                           similarity |-> Similarity(outcome.sources[i])]],
          success |-> TRUE]

NoResult == [answer |-> <<>>, sources |-> <<>>, success |-> FALSE]

----------------------------------------------------------------------------
(* ParallelProcessor._answer_question *)

RECURSIVE SumSimilarity(_)
SumSimilarity(sources) ==
    IF sources = <<>> THEN 0 ELSE Head(sources).similarity + SumSimilarity(Tail(sources))

\* a confidence from the sum of the similarities instead of their mean
ConfidenceOfSum(sources) ==
    IF sources # <<>>
    THEN IF SumSimilarity(sources) < 10000 THEN SumSimilarity(sources) ELSE 10000
    ELSE 0

\* confidence in ten-thousandths: min(1.0, avg_similarity / 100.0), 0 without sources
Confidence(sources) ==
    IF sources # <<>>
    THEN LET avg_similarity == SumSimilarity(sources) \div Len(sources)
         IN IF avg_similarity < 10000 THEN avg_similarity ELSE 10000
    ELSE 0

\* the record returned when the question is skipped
SkippedRecord(question, index, skip_reason) ==
    [section_name |-> question.section_name, question_id |-> question.question_id,
     question_type |-> question.question_type, answer |-> StrVal(SKIPPED),
     raw_answer |-> RawText(<<>>), status |-> "skipped", skip_reason |-> skip_reason,
     page_number |-> question.page_number, confidence |-> 0, sources |-> <<>>,
     used_context |-> FALSE, index |-> index]

\* the record built from the service result(s)
AnswerRecord(question, index, answer_text, sources, context) ==
    [section_name |-> question.section_name, question_id |-> question.question_id,
     question_type |-> question.question_type,
     answer |-> format_answer(answer_text, question.question_type, question.response_options),
     raw_answer |-> answer_text, status |-> "answered", skip_reason |-> NoReason,
     page_number |-> question.page_number, confidence |-> Confidence(sources),
     sources |-> sources, used_context |-> context.kind # "none", index |-> index]

\* a lookup that ignores the configuration
ContextForAlways(enabled, mem, question) == get_context(mem, question)

\* `context = None; if config.ENABLE_CONTEXT_INJECTION: context = get_context(question)`
ContextFor(enabled, mem, question) ==
    IF enabled THEN get_context(mem, question) ELSE NoContext

\* ChatbotAdapter.ask: `if context and config.ENABLE_CONTEXT_INJECTION` the
\* context is put in front of the query
Prefixed(enabled, context) == context.kind # "none" /\ enabled

\* the dual rating asks twice, every other question once
AsksTwice(question) ==
    question.question_type = "rating_scale_1_to_9" /\ question.response_options # <<>>

\* a merge that puts the sources of the second call first
answer_result_suffered_first(question, index, context, alleged, result) ==
    AnswerRecord(question, index,
                 IF AsksTwice(question) THEN RawDual(alleged.answer, result.answer)
                                        ELSE RawText(result.answer),
                 IF AsksTwice(question) THEN result.sources \o alleged.sources
                                        ELSE result.sources,
                 context)

\* _answer_question once its call(s) returned: the dual rating combines the
\* "alleged" result with the "suffered" one, every other question has the one
answer_result(question, index, context, alleged, result) ==
    LET answer_text == IF AsksTwice(question)
                       THEN RawDual(alleged.answer, result.answer)
                       ELSE RawText(result.answer)
        sources == IF AsksTwice(question)
                   THEN alleged.sources \o result.sources
                   ELSE result.sources
    IN AnswerRecord(question, index, answer_text, sources, context)

----------------------------------------------------------------------------
(* ParallelProcessor.process_page *)

\* a loop that submits the next question while calls are still pending
NextQuestionsSubmitted(page_questions, pos, pending) ==
    IF pos <= Len(page_questions) THEN {pos} ELSE {}

\* the for loop takes up the next question only after the previous one returned
NextQuestions(page_questions, pos, pending) ==
    IF pending = {} /\ pos <= Len(page_questions) THEN {pos} ELSE {}

\* a filter that forgets the SKIPPED sentinel
EntersMemoryNotFoundOnly(answer) == ~IsStr(answer, NOT_FOUND)

\* `if result.get('answer') not in ['NOT_FOUND', 'SKIPPED']`
EntersMemory(answer) == ~IsStr(answer, NOT_FOUND) /\ ~IsStr(answer, SKIPPED)

\* _print_summary: the counts it prints for the records of the run
_print_summary(answers, st) ==
    LET n(S) == Cardinality(S)
        all == 1..Len(answers)
    IN [total |-> Len(answers),
        answered |-> n({i \in all : ~IsStr(answers[i].answer, NOT_FOUND)
                                    /\ ~IsStr(answers[i].answer, SKIPPED)}),
        not_found |-> n({i \in all : IsStr(answers[i].answer, NOT_FOUND)}),
        skipped |-> n({i \in all : IsStr(answers[i].answer, SKIPPED)}),
        with_context |-> st.questions_with_context]

Mem == [current_section |-> mem_section, answers |-> mem_answers]
SetMem(m) == mem_section' = m.current_section /\ mem_answers' = m.answers

PageQuestions == questions_by_page[page_numbers[page_counter]]

----------------------------------------------------------------------------
(* The components called one at a time: the arguments explored *)

\* longest list of ids passed to get_answers_by_ids
MaxIds == 2
\* longest parent_response_values list
MaxValues == 2
\* most chunks one retrieval returns
MaxSources == 2

UnitIds == {<<"2">>, <<"7">>, <<"7", ".", "1">>}
UnitAnswers == {StrVal(YesText), StrVal(NoText)}

\* question texts: plain, with a range reference, with a synthesis keyword,
\* with both
TextPlain == <<"q">>
TextRange == <<"S","e","e"," ","Q","1","-","3">>
TextSynthesis == <<"O","v","e","r","a","l","l">>
TextBoth == <<"O","v","e","r","a","l","l"," ","Q","1","-","3">>
UnitTexts == {TextPlain, TextRange, TextSynthesis, TextBoth}

UnitQuestion(id, text, cond) ==
    [Question(id, "text", <<>>, cond, "A", 1) EXCEPT !.main_question = text]

SeqsUpTo(S, n) == UNION { [1..k -> S] : k \in 0..n }

IdLists == SeqsUpTo(UnitIds, MaxIds)
RequiredValueLists == SeqsUpTo({YesText, NoText}, MaxValues)

\* questions put to should_skip_question: without conditional_display, and
\* depending on question 7 with every list of required values
SkipCheckQuestions ==
    {UnitQuestion(<<"7", ".", "1">>, TextPlain, NoConditional)}
    \cup {UnitQuestion(<<"7", ".", "1">>, TextPlain, Conditional(<<"7">>, values)) : values \in RequiredValueLists}

\* questions put to get_context: a sub-question of 7 and the top-level 9
ContextQuestions ==
    {UnitQuestion(id, text, NoConditional) : id \in {<<"7", ".", "1">>, <<"9">>}, text \in UnitTexts}

\* retrievals: up to MaxSources chunks at L2 distance 0 or 3
Distances == {0, 300}
UnitOutcomes(answer) ==
    {Failure} \cup {Reply(answer, src) : src \in SeqsUpTo(Distances, MaxSources)}

\* a call on a component: the operation, its arguments (section name,
\* question, ids, answer, service results, range bounds, text and options)
\* and what it returned (entries, skip decision, context, record, parent
\* chain, parsed rating, formatted answer); the fields a call does not use
\* keep the values they have in NoCall
NoCall ==
    [op |-> "none", name |-> None, question |-> UnitQuestion(<<>>, <<>>, NoConditional),
     ids |-> <<>>, answer |-> NoVal, first |-> NoResult, last |-> NoResult,
     entries |-> <<>>, check |-> DontSkip, context |-> NoContext,
     record |-> SkippedRecord(UnitQuestion(<<>>, <<>>, NoConditional), 0, NoReason),
     start_id |-> <<>>, end_id |-> <<>>, chain |-> <<>>, is_sub |-> FALSE,
     text |-> <<>>, options |-> <<>>, parsed |-> NoRating(<<>>), raw |-> RawText(<<>>)]
NothingWritten == [id \in UnitIds |-> NoVal]

----------------------------------------------------------------------------
(* FormFiller.run *)

\* FormFiller.__init__: nothing loaded, no processor, a fresh memory
Constructed ==
    /\ all_questions = <<>>
    /\ questions_by_page = <<>>
    /\ faiss_index = FALSE
    /\ pc = "load"
    /\ page_numbers = <<>>
    /\ page_counter = 0
    /\ current_section = None
    /\ page_pos = 1
    /\ answered = <<>>
    /\ all_results = <<>>
    /\ mem_section = None
    /\ mem_answers = <<>>
    /\ stats = [questions_with_context |-> 0, questions_skipped |-> 0]
    /\ in_flight = {}
    /\ started = <<>>
    /\ asked = 0
    /\ last_call = NoCall
    /\ written = NothingWritten

\* a run of answer_generator.py on a questions file, with config.py as it is
Init ==
    /\ raw_questions \in QuestionLists
    /\ credentials \in BOOLEAN
    /\ context_injection = ENABLE_CONTEXT_INJECTION
    /\ Constructed

\* QuestionProcessor.__init__ / _load_questions
LoadQuestions ==
    /\ pc = "load"
    /\ all_questions' = _load_questions(raw_questions)
    /\ questions_by_page' = GroupByPage(_load_questions(raw_questions))
    /\ pc' = "adapter"
    /\ UNCHANGED <<context_injection, last_call, written, raw_questions, credentials, faiss_index, page_numbers, page_counter,
                   current_section, page_pos, answered, all_results, mem_section,
                   mem_answers, stats, in_flight, started, asked>>

\* the knowledge base found on disk by auto_sync: an index with nothing new
\* to add, no index and nothing to index, or chunks that need embeddings
KnowledgeBases == {"up_to_date", "nothing_to_index", "chunks_to_embed"}

\* ChatbotAdapter.__init__: SimpleRAGChatbot() and auto_sync(); only the
\* embedding of new chunks asks for the OpenAI client
InitAdapter ==
    /\ pc = "adapter"
    /\ \E kb \in KnowledgeBases :
         IF kb = "chunks_to_embed" /\ ~credentials
         THEN pc' = "config_error" /\ faiss_index' = FALSE
         ELSE pc' = "begin" /\ faiss_index' = (kb # "nothing_to_index")
    /\ UNCHANGED <<context_injection, last_call, written, raw_questions, all_questions, questions_by_page, credentials, page_numbers,
                   page_counter, current_section, page_pos, answered, all_results,
                   mem_section, mem_answers, stats, in_flight, started, asked>>

\* process_all_pages, up to the loop over the pages
BeginRun ==
    /\ pc = "begin"
    /\ page_numbers' = get_page_numbers(questions_by_page)
    /\ page_counter' = 0
    /\ current_section' = None
    /\ all_results' = <<>>
    /\ pc' = "pages"
    /\ UNCHANGED <<context_injection, last_call, written, raw_questions, all_questions, questions_by_page, credentials, faiss_index,
                   page_pos, answered, mem_section, mem_answers, stats, in_flight,
                   started, asked>>

\* one iteration of the page loop up to the question loop of process_page:
\* update_section when the page's section differs from the tracked one, then
\* process_page's own update_section of a non-empty section name
BeginPage ==
    /\ pc = "pages"
    /\ page_counter < Len(page_numbers)
    /\ page_counter' = page_counter + 1
    /\ LET page_questions == questions_by_page[page_numbers[page_counter + 1]]
           page_section == all_questions[page_questions[1]].section_name
           m1 == IF page_section # current_section THEN set_section(Mem, page_section) ELSE Mem
           m2 == IF page_section # "" THEN set_section(m1, page_section) ELSE m1
       IN /\ current_section' = page_section
          /\ SetMem(m2)
    /\ page_pos' = 1
    /\ answered' = <<>>
    /\ pc' = "page"
    /\ UNCHANGED <<context_injection, last_call, written, raw_questions, all_questions, questions_by_page, credentials, faiss_index,
                   page_numbers, all_results, stats, in_flight, started, asked>>

\* _answer_question returns the SKIPPED record; process_page appends it and
\* leaves the memory alone
SkipQuestion ==
    /\ pc = "page"
    /\ \E pos \in NextQuestions(PageQuestions, page_pos, in_flight) :
         LET index == PageQuestions[pos]
             question == all_questions[index]
             check == should_skip_question(Mem, question)
             result == SkippedRecord(question, index, check.reason)
         IN /\ ~check.raises /\ check.skip
            /\ stats' = [stats EXCEPT !.questions_skipped = @ + 1]
            /\ answered' = Append(answered, result)
            /\ SetMem(IF EntersMemory(result.answer)
                      THEN add_answer(Mem, question, result.answer) ELSE Mem)
            /\ started' = Append(started, index)
            /\ page_pos' = pos + 1
    /\ UNCHANGED <<context_injection, last_call, written, raw_questions, all_questions, questions_by_page, credentials, faiss_index,
                   pc, page_numbers, page_counter, current_section, all_results,
                   in_flight, asked>>

\* should_skip_question raises; nothing between it and FormFiller.run catches
SkipCheckRaises ==
    /\ pc = "page"
    /\ \E pos \in NextQuestions(PageQuestions, page_pos, in_flight) :
         LET index == PageQuestions[pos]
             check == should_skip_question(Mem, all_questions[index])
         IN /\ check.raises
            /\ started' = Append(started, index)
    /\ pc' = "question_error"
    /\ UNCHANGED <<context_injection, last_call, written, raw_questions, all_questions, questions_by_page, credentials, faiss_index,
                   page_numbers, page_counter, current_section, page_pos, answered,
                   all_results, mem_section, mem_answers, stats, in_flight, asked>>

\* _answer_question up to its (first) self.chatbot.ask: skip check, context
\* lookup, and the call goes out
AskQuestion ==
    /\ pc = "page"
    /\ \E pos \in NextQuestions(PageQuestions, page_pos, in_flight) :
         LET index == PageQuestions[pos]
             question == all_questions[index]
             check == should_skip_question(Mem, question)
             context == ContextFor(context_injection, Mem, question)
         IN /\ ~check.raises /\ ~check.skip
            /\ stats' = [stats EXCEPT !.questions_with_context =
                            IF context.kind # "none" THEN @ + 1 ELSE @]
            /\ in_flight' = in_flight \cup
                   {[index |-> index,
                     aspect |-> IF AsksTwice(question) THEN "alleged" ELSE "single",
                     context |-> context,
                     prefixed |-> Prefixed(context_injection, context),
                     alleged |-> NoResult]}
            /\ started' = Append(started, index)
            /\ page_pos' = pos + 1
    /\ asked' = asked + 1
    /\ UNCHANGED <<context_injection, last_call, written, raw_questions, all_questions, questions_by_page, credentials, faiss_index,
                   pc, page_numbers, page_counter, current_section, answered, all_results,
                   mem_section, mem_answers>>

\* the "alleged" call of a dual rating returns and the "suffered" call goes out
AllegedReply ==
    /\ pc = "page"
    /\ \E call \in in_flight : \E outcome \in ServiceOutcomes(all_questions[call.index]) :
         /\ call.aspect = "alleged"
         /\ in_flight' = (in_flight \ {call}) \cup
                {[call EXCEPT !.aspect = "suffered",
                              !.alleged = ask(credentials, faiss_index, outcome)]}
    /\ asked' = asked + 1
    /\ UNCHANGED <<context_injection, last_call, written, raw_questions, all_questions, questions_by_page, credentials, faiss_index,
                   pc, page_numbers, page_counter, current_section, page_pos, answered,
                   all_results, mem_section, mem_answers, stats, started>>

\* the (last) call of a question returns: confidence, format_answer, the
\* record; process_page appends it and adds the answer to the memory
ServiceReply ==
    /\ pc = "page"
    /\ \E call \in in_flight : \E outcome \in ServiceOutcomes(all_questions[call.index]) :
         LET question == all_questions[call.index]
             result == ask(credentials, faiss_index, outcome)
             record == answer_result(question, call.index, call.context, call.alleged, result)
         IN /\ call.aspect # "alleged"
            /\ in_flight' = in_flight \ {call}
            /\ answered' = Append(answered, record)
            /\ SetMem(IF EntersMemory(record.answer)
                      THEN add_answer(Mem, question, record.answer) ELSE Mem)
    /\ UNCHANGED <<context_injection, last_call, written, raw_questions, all_questions, questions_by_page, credentials, faiss_index,
                   pc, page_numbers, page_counter, current_section, page_pos, all_results,
                   stats, started, asked>>

\* process_page returns; all_results.extend(page_results)
EndPage ==
    /\ pc = "page"
    /\ page_pos > Len(PageQuestions)
    /\ in_flight = {}
    /\ all_results' = all_results \o answered
    /\ answered' = <<>>
    /\ pc' = "pages"
    /\ UNCHANGED <<context_injection, last_call, written, raw_questions, all_questions, questions_by_page, credentials, faiss_index,
                   page_numbers, page_counter, current_section, page_pos, mem_section,
                   mem_answers, stats, in_flight, started, asked>>

\* the page loop is over: _print_summary divides by len(answers), then
\* process_all_pages returns all_results
EndRun ==
    /\ pc = "pages"
    /\ page_counter = Len(page_numbers)
    /\ pc' = IF Len(all_results) = 0 THEN "summary_error" ELSE "done"
    /\ UNCHANGED <<context_injection, last_call, written, raw_questions, all_questions, questions_by_page, credentials, faiss_index,
                   page_numbers, page_counter, current_section, page_pos, answered,
                   all_results, mem_section, mem_answers, stats, in_flight, started, asked>>

Next ==
    \/ LoadQuestions
    \/ InitAdapter
    \/ BeginRun
    \/ BeginPage
    \/ SkipQuestion
    \/ SkipCheckRaises
    \/ AskQuestion
    \/ AllegedReply
    \/ ServiceReply
    \/ EndPage
    \/ EndRun

Spec == Init /\ [][Next]_vars

----------------------------------------------------------------------------
(* A run of one section with ENABLE_CONTEXT_INJECTION set either way, on    *)
(* questions that would get a context: sub-questions and a synthesis        *)
(* question.                                                                *)

SynthesisShape ==
    [id |-> <<"8">>, type |-> "text", options |-> <<>>, cond |-> NoConditional]

InjectionPool ==
    { [Question(sh.id, sh.type, sh.options, sh.cond, "A", pg)
         EXCEPT !.main_question = IF sh = SynthesisShape THEN TextSynthesis ELSE @] :
        sh \in TextShapes \cup {SynthesisShape}, pg \in Pages \ {0} }
    \cup { Question(sh.id, sh.type, sh.options, sh.cond, "A", 1) :
             sh \in {r \in RatingShapes : r.type = "rating_scale_1_to_9" /\ r.options # <<>>} }

InjectionInit ==
    /\ raw_questions \in UNION { [1..n -> {Dict(q) : q \in InjectionPool}] : n \in 0..MaxQuestions }
    /\ credentials = TRUE
    /\ context_injection \in BOOLEAN
    /\ Constructed

InjectionSpec == InjectionInit /\ [][Next]_vars

----------------------------------------------------------------------------
(* A run on a questions file whose list has items that are not objects      *)
(* among the questions of one page.                                         *)

\* longest list in the file
MaxItems == 3

LoadPool ==
    { Dict(Question(sh.id, sh.type, sh.options, sh.cond, "A", 1)) :
        sh \in TextShapes \cup {r \in RatingShapes : r.type = "rating_scale_1_to_9" /\ r.options # <<>>} }
    \cup { NonDict("str"), NonDict("list") }

LoadInit ==
    /\ raw_questions \in UNION { [1..n -> LoadPool] : n \in 0..MaxItems }
    /\ credentials \in BOOLEAN
    /\ context_injection = ENABLE_CONTEXT_INJECTION
    /\ Constructed

LoadSpec == LoadInit /\ [][Next]_vars

----------------------------------------------------------------------------
(* A run that comes back to a section it has left: one question on each of *)
(* pages 1..MaxVisits, the first and the last page in section "A", the     *)
(* pages between in either section.                                        *)

\* pages of the run
MaxVisits == 3

\* the first page asks any question, the later pages a free-text question
ReentryLists ==
    { [i \in 1..MaxVisits |->
         LET sh == IF i = 1 THEN first ELSE later[i]
             sec == IF i \in DOMAIN between THEN between[i] ELSE "A"
         IN Dict(Question(sh.id, sh.type, sh.options, sh.cond, sec, i))] :
        first \in TextShapes \cup RatingShapes,
        later \in [2..MaxVisits -> TextShapes],
        between \in [2..(MaxVisits - 1) -> Sections] }

ReentryInit ==
    /\ raw_questions \in ReentryLists
    /\ credentials = TRUE
    /\ context_injection = ENABLE_CONTEXT_INJECTION
    /\ Constructed

ReentrySpec == ReentryInit /\ [][Next]_vars

----------------------------------------------------------------------------
(* The components called one at a time, on one ContextManager with its     *)
(* SectionMemory, in any order; last_call keeps the call and what it        *)
(* returned.                                                               *)

run_vars == <<raw_questions, all_questions, questions_by_page, credentials, faiss_index,
              pc, page_numbers, page_counter, current_section, page_pos, answered,
              all_results, stats, in_flight, started, asked, context_injection>>

ComponentInit ==
    /\ raw_questions = <<>>
    /\ credentials = TRUE
    /\ context_injection = ENABLE_CONTEXT_INJECTION
    /\ Constructed

\* ContextManager.update_section / SectionMemory.set_section
CallSetSection ==
    /\ \E name \in Sections :
         /\ SetMem(set_section(Mem, name))
         /\ written' = IF name # mem_section THEN NothingWritten ELSE written
         /\ last_call' = [NoCall EXCEPT !.op = "set_section", !.name = name]
    /\ UNCHANGED run_vars

\* ContextManager.add_answer / SectionMemory.add_answer
CallAddAnswer ==
    /\ \E id \in UnitIds : \E answer \in UnitAnswers :
         LET question == UnitQuestion(id, TextPlain, NoConditional) IN
         /\ SetMem(add_answer(Mem, question, answer))
         /\ written' = [written EXCEPT ![id] = answer]
         /\ last_call' = [NoCall EXCEPT !.op = "add_answer", !.question = question, !.answer = answer]
    /\ UNCHANGED run_vars

\* ContextManager.clear / SectionMemory.clear
CallClear ==
    /\ SetMem(clear(Mem))
    /\ written' = NothingWritten
    /\ last_call' = [NoCall EXCEPT !.op = "clear"]
    /\ UNCHANGED run_vars

\* SectionMemory.get_answers_by_ids
CallGetAnswersByIds ==
    /\ \E ids \in IdLists :
         last_call' = [NoCall EXCEPT !.op = "get_answers_by_ids", !.ids = ids,
                                    !.entries = get_answers_by_ids(Mem, ids)]
    /\ UNCHANGED <<run_vars, mem_section, mem_answers, written>>

\* ContextManager.should_skip_question
CallShouldSkip ==
    /\ \E question \in SkipCheckQuestions :
         last_call' = [NoCall EXCEPT !.op = "should_skip_question", !.question = question,
                                    !.check = should_skip_question(Mem, question)]
    /\ UNCHANGED <<run_vars, mem_section, mem_answers, written>>

\* ContextManager.get_context
CallGetContext ==
    /\ \E question \in ContextQuestions :
         last_call' = [NoCall EXCEPT !.op = "get_context", !.question = question,
                                    !.context = get_context(Mem, question)]
    /\ UNCHANGED <<run_vars, mem_section, mem_answers, written>>

\* ParallelProcessor._answer_question on a fresh memory: a free-text and a
\* dual-rating question, with every retrieval the service may come back with
CallAnswerQuestion ==
    /\ mem_section = None /\ mem_answers = <<>>
    /\ \E shape \in {sh \in TextShapes \cup RatingShapes :
                        sh.id = <<"7">> /\ sh.type # "rating_scale_1_to_5"
                        /\ (sh.type = "text" \/ sh.options # <<>>)} :
       LET question == Question(shape.id, shape.type, shape.options, shape.cond, "A", 1) IN
       \E first \in (IF AsksTwice(question) THEN UnitOutcomes(RatingThreeText) ELSE {Failure}) :
       \E last \in UnitOutcomes(IF shape.type = "text" THEN YesText ELSE RatingThreeText) :
         LET alleged == IF AsksTwice(question) THEN ask(TRUE, TRUE, first) ELSE NoResult
             result == ask(TRUE, TRUE, last)
         IN last_call' = [NoCall EXCEPT !.op = "_answer_question", !.question = question,
                                        !.first = alleged, !.last = result,
                                        !.record = answer_result(question, 1, NoContext, alleged, result)]
    /\ UNCHANGED <<run_vars, mem_section, mem_answers, written>>

ComponentNext ==
    \/ CallSetSection
    \/ CallAddAnswer
    \/ CallClear
    \/ CallGetAnswersByIds
    \/ CallShouldSkip
    \/ CallGetContext
    \/ CallAnswerQuestion

ComponentSpec == ComponentInit /\ [][ComponentNext]_vars

----------------------------------------------------------------------------
(* The reads of a SectionMemory that was filled in any order with ids of    *)
(* every kind: top-level, dotted, with a two-digit segment, and with a      *)
(* segment that is no integer.                                             *)

\* most entries in the memory
MaxStored == 3

ReadIds ==
    { <<"7">>, <<"7", ".", "2">>, <<"7", ".", "1", "0">>, <<"8">>, <<"x">>, <<"7", ".", "x">> }

\* the start_id and end_id passed to get_answers_in_range
RangeEnds == { <<"7">>, <<"8">>, <<"1", "0">>, <<"x">>, <<>> }

\* the ids passed to extract_parent_chain and is_sub_question
ChainIds ==
    ReadIds \cup { <<"7", ".", "3">>, <<"7", ".", "2", ".", "1">>, <<"7", ".">>, <<".">>, <<>> }

\* SectionMemory.add_answer of an id that has no entry yet
ReadAddAnswer ==
    /\ Len(mem_answers) < MaxStored
    /\ \E id \in ReadIds :
         LET question == UnitQuestion(id, TextPlain, NoConditional) IN
         /\ ~HasAnswer(Mem, id)
         /\ SetMem(add_answer(Mem, question, StrVal(YesText)))
         /\ last_call' = [NoCall EXCEPT !.op = "add_answer", !.question = question,
                                        !.answer = StrVal(YesText)]
    /\ UNCHANGED <<run_vars, written>>

\* SectionMemory.get_answers_in_range
CallGetAnswersInRange ==
    /\ \E start_id \in RangeEnds : \E end_id \in RangeEnds :
         last_call' = [NoCall EXCEPT !.op = "get_answers_in_range",
                                    !.start_id = start_id, !.end_id = end_id,
                                    !.entries = get_answers_in_range(Mem, start_id, end_id)]
    /\ UNCHANGED <<run_vars, mem_section, mem_answers, written>>

\* SectionMemory.get_all_answers
CallGetAllAnswers ==
    /\ last_call' = [NoCall EXCEPT !.op = "get_all_answers", !.entries = get_all_answers(Mem)]
    /\ UNCHANGED <<run_vars, mem_section, mem_answers, written>>

\* QuestionAnalyzer.extract_parent_chain and is_sub_question of one id
CallExtractParentChain ==
    /\ \E id \in ChainIds :
         last_call' = [NoCall EXCEPT !.op = "extract_parent_chain", !.ids = <<id>>,
                                    !.chain = extract_parent_chain(id),
                                    !.is_sub = is_sub_question(id)]
    /\ UNCHANGED <<run_vars, mem_section, mem_answers, written>>

\* ContextManager.get_context of a sub-question
CallGetChainContext ==
    /\ \E id \in {<<"7", ".", "3">>, <<"7", ".", "2", ".", "1">>} :
         LET question == UnitQuestion(id, TextPlain, NoConditional) IN
         last_call' = [NoCall EXCEPT !.op = "get_context", !.question = question,
                                    !.context = get_context(Mem, question)]
    /\ UNCHANGED <<run_vars, mem_section, mem_answers, written>>

ReadNext ==
    \/ ReadAddAnswer
    \/ CallClear
    \/ CallGetAnswersInRange
    \/ CallGetAllAnswers
    \/ CallExtractParentChain
    \/ CallGetChainContext

ReadSpec == ComponentInit /\ [][ReadNext]_vars

----------------------------------------------------------------------------
(* AnswerFormatter called on its own: the texts a model may return for a    *)
(* rating prompt or a choice prompt, against option lists.                  *)

\* longest list of options of a choice question
MaxOptions == 2

\* rating options are numbered: "1.", "2.", ...
NumberedOptions(n) == [i \in 1..n |-> Decimal(i) \o <<".">>]
RatingOptionLists == {NumberedOptions(5), NumberedOptions(9), <<>>}

\* "rating:11", "RATING: 0", "7.", "Grade 12", "none", and a rating with an
\* explanation after the marker or on the next line
RatingEleven == <<"r","a","t","i","n","g",":","1","1">>
RatingZero == <<"R","A","T","I","N","G",":"," ","0">>
SevenDot == <<"7",".">>
GradeTwelve == <<"G","r","a","d","e"," ","1","2">>
NoneText == <<"n","o","n","e">>
RatingThreeExplained ==
    RatingThreeText \o <<"\n","E","X","P","L","A","N","A","T","I","O","N",":"," ","o","k">>
TwoThenWhy == <<"2","\n","w","h","y">>
RatingTexts ==
    {EmptyText, NOT_FOUND, RatingThreeText, RatingEleven, RatingZero, SevenDot, GradeTwelve,
     NoneText, RatingThreeExplained, TwoThenWhy}

\* choice options "Ab", "Cd", "Ef" and answer texts naming them
OptionAb == <<"A","b">>
OptionCd == <<"C","d">>
OptionEf == <<"E","f">>
ChoiceOptionLists == SeqsUpTo({OptionAb, OptionCd, OptionEf}, MaxOptions)
EfAndAb == <<"e","f"," ","a","n","d"," ","A","B">>
ChoiceTexts == {EmptyText, NOT_FOUND, EfAndAb, OptionCd, NoneText}

\* AnswerFormatter._parse_rating_response
CallParseRating ==
    /\ \E text \in RatingTexts : \E options \in RatingOptionLists :
         last_call' = [NoCall EXCEPT !.op = "_parse_rating_response", !.text = text,
                                    !.options = options,
                                    !.parsed = _parse_rating_response(text, options)]
    /\ UNCHANGED <<run_vars, mem_section, mem_answers, written>>

\* the raw answers and option lists that reach format_answer with a type
FormatInputs(type) ==
    CASE type = "rating_scale_1_to_5" ->
            {RawText(t) : t \in RatingTexts} \X {NumberedOptions(5)}
      [] type = "rating_scale_1_to_9" ->
            ({RawDual(a, b) : a, b \in RatingTexts} \cup {RawText(RatingThreeText)})
            \X {NumberedOptions(9)}
      [] OTHER ->
            {RawText(t) : t \in ChoiceTexts} \X ChoiceOptionLists

\* AnswerFormatter.format_answer
CallFormatAnswer ==
    /\ \E type \in {"rating_scale_1_to_5", "rating_scale_1_to_9", "checkbox_group", "radio"} :
       \E input \in FormatInputs(type) :
         last_call' = [NoCall EXCEPT !.op = "format_answer",
                                    !.question = Question(<<"7">>, type, input[2], NoConditional, "A", 1),
                                    !.raw = input[1], !.options = input[2],
                                    !.answer = format_answer(input[1], type, input[2])]
    /\ UNCHANGED <<run_vars, mem_section, mem_answers, written>>

FormatNext ==
    \/ CallParseRating
    \/ CallFormatAnswer

FormatSpec == ComponentInit /\ [][FormatNext]_vars

----------------------------------------------------------------------------
(* Properties *)

\* the records emitted so far, in order of emission
Records == all_results \o answered

\* the answer service found nothing for the record's question: the adapter
\* reported NOT_FOUND (failed call, empty or NOT_FOUND answer) for every call
FoundNothing(r) ==
    /\ r.status = "answered"
    /\ IF r.raw_answer.is_dict
       THEN r.raw_answer.alleged = NOT_FOUND /\ r.raw_answer.suffered = NOT_FOUND
       ELSE r.raw_answer.text = NOT_FOUND

\* a step that emits a record, and the record
Emits == Len(answered') = Len(answered) + 1
Emitted == answered'[Len(answered')]

\* a step in which _answer_question starts on a question, and the question
Starts == Len(started') = Len(started) + 1
StartedIndex == started'[Len(started')]

\* the pages of the section being processed: the longest run of pages up to
\* the current one whose first questions carry the same section name
PageSection(k) == all_questions[questions_by_page[page_numbers[k]][1]].section_name
SectionFirstPage ==
    CHOOSE k \in 1..page_counter :
        /\ \A j \in k..page_counter : PageSection(j) = PageSection(page_counter)
        /\ (k = 1 \/ PageSection(k - 1) # PageSection(page_counter))
InCurrentSection(r) ==
    \E k \in SectionFirstPage..page_counter : r.page_number = page_numbers[k]

\* C1: a question that was skipped, or for which the answer service found
\* nothing, is never written to SectionMemory: the step that emits its record
\* leaves the memory as it was.
C1_OnlyAnsweredEnterMemory ==
    [][ (Emits /\ (Emitted.status = "skipped" \/ FoundNothing(Emitted)))
            => mem_answers' = mem_answers ]_vars

\* C2: a question is emitted as SKIPPED only if a record of its parent, with
\* a substantive answer that contains none of the required values, was
\* emitted earlier in the current section.
C2_SkipOnlyOnAnsweredParent ==
    [][ (Emits /\ Emitted.status = "skipped") =>
          LET cd == all_questions[Emitted.index].conditional_display IN
          \E j \in 1..Len(Records) :
             /\ Records[j].question_id = cd.parent_question_id
             /\ Records[j].status = "answered"
             /\ ~FoundNothing(Records[j])
             /\ InCurrentSection(Records[j])
             /\ Records[j].answer.kind = "str"
             /\ \A k \in 1..Len(cd.parent_response_values) :
                   ~Contains(Lower(cd.parent_response_values[k]), Lower(Records[j].answer.s))
      ]_vars

\* C3: the memory is emptied by a step iff that step starts a page whose
\* section differs from the tracked current section; a page of the same
\* section starts with the memory untouched, and no other step removes an
\* entry.
NewSectionObserved == pc = "pages" /\ pc' = "page" /\ current_section' # current_section
C4_MemoryScopedToSection ==
    [][ Starts =>
          \A i \in 1..Len(mem_answers) :
             mem_answers[i].section_name = all_questions[StartedIndex].section_name ]_vars

\* C5: a finished run has one record per input question.
C5_OneRecordPerQuestion ==
    pc = "done" => Len(all_results) = Len(raw_questions)

\* C6: a question for which the service call failed or returned nothing is
\* emitted with the answer "NOT_FOUND", no sources and confidence 0.
C6_FailureIsNotFoundRecord ==
    \A j \in 1..Len(Records) :
       (Records[j].status = "answered" /\ ~Records[j].raw_answer.is_dict
          /\ Records[j].raw_answer.text = NOT_FOUND)
       => /\ IsStr(Records[j].answer, NOT_FOUND)
          /\ Records[j].sources = <<>>
          /\ Records[j].confidence = 0

\* C7: no error of a single question ends process_all_pages.
C7_NoQuestionErrorEscapes == pc # "question_error"

\* C8: without credentials no question is processed: none is started, none
\* is sent to the service, no record is produced.
C8_FailFastWithoutCredentials ==
    ~credentials => (started = <<>> /\ asked = 0 /\ Records = <<>>)

RECURSIVE OrderedByPage(_, _)
OrderedByPage(questions, todo) ==
    IF todo = {} THEN <<>>
    ELSE LET i == CHOOSE x \in todo : \A y \in todo :
                     \/ questions[x].page_number < questions[y].page_number
                     \/ (questions[x].page_number = questions[y].page_number /\ x <= y)
         IN <<i>> \o OrderedByPage(questions, todo \ {i})
ExpectedOrder ==
    OrderedByPage(all_questions, { i \in 1..Len(all_questions) : all_questions[i].page_number # 0 })

\* C10: the i-th record belongs to the i-th question in page order.
C10_RecordsInPageOrder ==
    /\ Len(Records) <= Len(ExpectedOrder)
    /\ \A k \in 1..Len(Records) : Records[k].index = ExpectedOrder[k]

\* C10 witness: a finished run whose first record is the second input
\* question, because its page comes first
C10_Witness ==
    /\ pc = "done" /\ Len(all_results) = 2
    /\ all_results[1].index = 2 /\ all_results[2].index = 1

\* C11: when should_skip_question decides to skip the question that
\* _answer_question starts on, the same step emits that question's record
\* with answer "SKIPPED", confidence 0, no sources and the reason given by
\* should_skip_question; no answer-service call is made or pending for it,
\* and the memory (answers and current section) is left as it was.
C11_SkipEmitsSkippedRecord ==
    [][ Starts =>
          LET check == should_skip_question(Mem, all_questions[StartedIndex]) IN
          (~check.raises /\ check.skip) =>
              /\ Emits
              /\ Emitted.index = StartedIndex
              /\ IsStr(Emitted.answer, SKIPPED)
              /\ Emitted.confidence = 0
              /\ Emitted.sources = <<>>
              /\ Emitted.skip_reason = check.reason
              /\ asked' = asked
              /\ in_flight' = in_flight
              /\ mem_answers' = mem_answers
              /\ mem_section' = mem_section
      ]_vars

\* question 7 answered "No", then 7.1 (displayed when 7 is "Yes") skipped
C11_Witness ==
    /\ Len(answered) = 2
    /\ IsStr(answered[1].answer, NoText)
    /\ answered[1].question_id = <<"7">>
    /\ answered[2].question_id = <<"7", ".", "1">>
    /\ IsStr(answered[2].answer, SKIPPED)
    /\ answered[2].skip_reason = [parent |-> <<"7">>, answer |-> StrVal(NoText), needed |-> <<YesText>>]
    /\ asked = 1

\* C12: a call of should_skip_question returns (False, "") whenever the
\* question has no conditional_display, or its list of required values is
\* empty, or the memory holds no entry for the parent id, whatever the
\* required values are; the call leaves the memory as it was.
C12_NoSkipWithoutParentAnswer ==
    [][ last_call'.op = "should_skip_question" =>
          LET cd == last_call'.question.conditional_display
              returned == last_call'.check
          IN /\ ( \/ ~cd.present
                  \/ cd.parent_response_values = <<>>
                  \/ \A i \in 1..Len(mem_answers) :
                        mem_answers[i].question_id # cd.parent_question_id )
                  => (~returned.raises /\ ~returned.skip /\ returned.reason = NoReason)
             /\ mem_answers' = mem_answers
             /\ mem_section' = mem_section
      ]_vars

\* the memory holds answers but none of the parent 7; the values asked for
\* are ["No", "Yes"]
C12_Witness ==
    /\ last_call.op = "should_skip_question"
    /\ last_call.question.conditional_display = Conditional(<<"7">>, <<NoText, YesText>>)
    /\ Len(mem_answers) = 2
    /\ \A i \in 1..Len(mem_answers) : mem_answers[i].question_id # <<"7">>
    /\ last_call.check = DontSkip

IsStrictPrefix(a, b) == Len(a) < Len(b) /\ SubSeq(b, 1, Len(a) + 1) = a \o <<".">>

\* C14: get_context applies its rules in strict priority. For an id with a
\* separator the result is the parent-chain context when an ancestor is in
\* the memory and none otherwise, whatever the text says; for a top-level id
\* whose text refers to a range it is the range context of that range when
\* the memory holds an answer in the range and none otherwise; only then a
\* synthesis keyword gives the section context (none on an empty memory);
\* any other question gets none.
C14_ContextRulesInPriority ==
    [][ last_call'.op = "get_context" =>
          LET id == last_call'.question.question_id
              text == last_call'.question.main_question
              result == last_call'.context
              ancestors == {i \in 1..Len(mem_answers) : IsStrictPrefix(mem_answers[i].question_id, id)}
              in_range == {i \in 1..Len(mem_answers) :
                             LET q == mem_answers[i].question_id
                             IN /\ Len(q) >= 1 /\ q[1] \in {"1", "2", "3"}
                                /\ Len(q) >= 2 => q[2] = "."}
              ids == [k \in 1..Len(result.entries) |-> result.entries[k].question_id]
          IN IF \E i \in 1..Len(id) : id[i] = "."
             THEN /\ result.kind = IF ancestors # {} THEN "chain" ELSE "none"
                  /\ {ids[k] : k \in 1..Len(ids)} = {mem_answers[i].question_id : i \in ancestors}
             ELSE IF text \in {TextRange, TextBoth}
             THEN /\ result.kind = IF in_range # {} THEN "range" ELSE "none"
                  /\ in_range # {} => (result.from = <<"1">> /\ result.to = <<"3">>)
                  /\ {ids[k] : k \in 1..Len(ids)} = {mem_answers[i].question_id : i \in in_range}
             ELSE IF text = TextSynthesis
             THEN /\ result.kind = IF mem_answers # <<>> THEN "section" ELSE "none"
                  /\ Len(ids) = Len(mem_answers)
             ELSE result.kind = "none"
      ]_vars

\* sub-question 7.1 whose text has a range reference and a synthesis
\* keyword; the memory holds question 2 (in the range) but not 7: no context
C14_Witness ==
    /\ last_call.op = "get_context"
    /\ last_call.question.question_id = <<"7", ".", "1">>
    /\ last_call.question.main_question = TextBoth
    /\ Len(mem_answers) = 1
    /\ mem_answers[1].question_id = <<"2">>
    /\ last_call.context = NoContext

\* similarity, in hundredths of a percent, of a chunk at L2 distance 0 (100%)
\* and 3 (25%)
SimilarityAt(distance) == IF distance = 0 THEN 10000 ELSE 2500
RECURSIVE SumSimilarityAt(_)
SumSimilarityAt(sources) ==
    IF sources = <<>> THEN 0
    ELSE SimilarityAt(Head(sources).distance) + SumSimilarityAt(Tail(sources))

\* C15: the confidence of the record _answer_question builds lies in [0, 1]
\* (0..10000 ten-thousandths): it is 0 when the call(s) returned no source,
\* and otherwise the mean similarity of all returned sources divided by 100,
\* which a retrieval at distances >= 0 keeps within both bounds; the
\* record's sources are those the call(s) returned.
C15_ConfidenceIsClampedMean ==
    last_call.op = "_answer_question" =>
        LET record == last_call.record
            returned == last_call.first.sources \o last_call.last.sources
            n == Len(returned)
        IN /\ record.sources = returned
           /\ record.confidence \in 0..10000
           /\ n = 0 => record.confidence = 0
           /\ n > 0 => /\ n * record.confidence <= SumSimilarityAt(returned)
                       /\ SumSimilarityAt(returned) < n * (record.confidence + 1)

\* a dual rating whose two calls returned three sources at distances 0, 3, 3:
\* similarities 100, 25, 25, confidence 0.5
C15_Witness ==
    /\ last_call.op = "_answer_question"
    /\ Len(last_call.record.sources) = 3
    /\ last_call.record.sources[1].distance = 0
    /\ last_call.record.confidence = 5000

\* the calls a question is to get, and the calls made for the records
\* emitted and for the question in progress
CallsOf(question) ==
    IF question.question_type = "rating_scale_1_to_9" /\ question.response_options # <<>>
    THEN 2 ELSE 1
RECURSIVE CallsForRecords(_)
CallsForRecords(records) ==
    IF records = <<>> THEN 0
    ELSE (IF Head(records).status = "skipped" THEN 0
          ELSE CallsOf(all_questions[Head(records).index]))
         + CallsForRecords(Tail(records))
CallsPending ==
    IF in_flight = {} THEN 0
    ELSE IF (CHOOSE c \in in_flight : TRUE).aspect = "suffered" THEN 2 ELSE 1

\* C16: a question that is not skipped gets exactly one answer-service call,
\* except a rating_scale_1_to_9 question with options, which gets exactly
\* two: "alleged", then, once that returned, "suffered", with the same
\* context; its record is emitted after the second call and its sources are
\* the alleged sources followed by the suffered sources.
C16_CallsPerQuestion ==
    [][ /\ asked' = CallsForRecords(Records') + CallsPending'
        /\ \A c \in in_flight' \ in_flight :
              /\ asked' = asked + 1
              /\ ~Emits
              /\ IF c.aspect = "suffered"
                 THEN \E b \in in_flight :
                         /\ b.index = c.index
                         /\ b.aspect = "alleged"
                         /\ b.context = c.context
                 ELSE /\ Starts /\ StartedIndex = c.index
                      /\ c.aspect = IF CallsOf(all_questions[c.index]) = 2
                                    THEN "alleged" ELSE "single"
        /\ (Emits /\ Emitted.status = "answered") =>
              \E c \in in_flight :
                 /\ c.index = Emitted.index
                 /\ in_flight' = in_flight \ {c}
                 /\ asked' = asked
                 /\ c.aspect = IF CallsOf(all_questions[c.index]) = 2 THEN "suffered" ELSE "single"
                 /\ CallsOf(all_questions[c.index]) = 2 =>
                       \E outcome \in ServiceOutcomes(all_questions[c.index]) :
                          Emitted.sources =
                             c.alleged.sources \o ask(credentials, faiss_index, outcome).sources
      ]_vars

\* a dual rating whose "alleged" call returned the chunk at distance 0.25 and
\* whose "suffered" call the chunk at distance 0.5
C16_Witness ==
    /\ Len(answered) = 1
    /\ answered[1].question_type = "rating_scale_1_to_9"
    /\ Len(answered[1].sources) = 2
    /\ answered[1].sources[1].distance = 25
    /\ answered[1].sources[2].distance = 50
    /\ asked = 2
    /\ in_flight = {}

\* the records that used a context, and the answers in a memory by id
RECURSIVE UsedContextCount(_)
UsedContextCount(records) ==
    IF records = <<>> THEN 0
    ELSE (IF Head(records).used_context THEN 1 ELSE 0) + UsedContextCount(Tail(records))
AnswerById(answers) ==
    [id \in {answers[i].question_id : i \in 1..Len(answers)} |->
        answers[CHOOSE i \in 1..Len(answers) : answers[i].question_id = id].answer]

\* C17: with ENABLE_CONTEXT_INJECTION disabled no call carries or is prefixed
\* with a context, every record has used_context false and the context-used
\* count stays 0; with it enabled a call carries the get_context result and
\* a record has used_context true exactly when that result was not None.
\* Either way a question is skipped exactly when should_skip_question says
\* so, and the record's answer enters the memory exactly when it is neither
\* "NOT_FOUND" nor "SKIPPED".
C17_ContextInjectionGated ==
    [][ /\ \A c \in in_flight' \ in_flight :
              /\ c.context = IF context_injection
                             THEN get_context(Mem, all_questions[c.index]) ELSE NoContext
              /\ c.prefixed = (context_injection /\ c.context # NoContext)
        /\ (Emits /\ Emitted.status = "answered") =>
              Emitted.used_context =
                 (context_injection /\ get_context(Mem, all_questions[Emitted.index]) # NoContext)
        /\ (Emits /\ Emitted.status = "skipped") => ~Emitted.used_context
        /\ stats'.questions_with_context =
              UsedContextCount(Records') + Cardinality({c \in in_flight' : c.context # NoContext})
        /\ ~context_injection => stats'.questions_with_context = 0
        /\ Starts =>
              LET check == should_skip_question(Mem, all_questions[StartedIndex]) IN
              /\ (Emits /\ Emitted.status = "skipped") <=> (~check.raises /\ check.skip)
              /\ (in_flight' # in_flight) <=> (~check.raises /\ ~check.skip)
        /\ Emits =>
              /\ mem_section' = mem_section
              /\ AnswerById(mem_answers') =
                    IF IsStr(Emitted.answer, NOT_FOUND) \/ IsStr(Emitted.answer, SKIPPED)
                    THEN AnswerById(mem_answers)
                    ELSE [id \in DOMAIN AnswerById(mem_answers) \cup {Emitted.question_id} |->
                             IF id = Emitted.question_id THEN Emitted.answer
                             ELSE AnswerById(mem_answers)[id]]
      ]_vars

\* injection disabled: 7 was answered "Yes" and is in the memory, 7.1 was
\* answered without the chain context get_context would have given
C17_Witness ==
    /\ ~context_injection
    /\ Len(answered) = 2
    /\ answered[1].question_id = <<"7">>
    /\ IsStr(answered[1].answer, YesText)
    /\ answered[2].question_id = <<"7", ".", "1">>
    /\ answered[2].status = "answered"
    /\ ~answered[2].used_context
    /\ get_context([current_section |-> mem_section, answers |-> SubSeq(mem_answers, 1, 1)],
                   all_questions[answered[2].index]).kind = "chain"
    /\ stats.questions_with_context = 0

\* C18: set_section(name) with the current section's name leaves the answers
\* and the section as they are; with any other name it leaves the answers
\* empty and the current section equal to name.
C18_SetSectionClearsOnChange ==
    [][ last_call'.op = "set_section" =>
          IF last_call'.name = mem_section
          THEN mem_answers' = mem_answers /\ mem_section' = mem_section
          ELSE mem_answers' = <<>> /\ mem_section' = last_call'.name
      ]_vars

\* two answers added under section "A" are still there after set_section("A")
C18_Witness ==
    /\ last_call.op = "set_section"
    /\ last_call.name = "A"
    /\ mem_section = "A"
    /\ Len(mem_answers) = 2

\* C19: add_answer is an upsert keyed by the question id. After any sequence
\* of add_answer, set_section and clear the memory holds at most one entry
\* per id, and the entry of an id carries the answer of the most recent
\* add_answer for it since the memory was last emptied (no entry if there
\* was none); add_answer changes no other id's entry and not the section.
C19_AddAnswerIsUpsert ==
    [][ /\ \A i, j \in 1..Len(mem_answers') :
              mem_answers'[i].question_id = mem_answers'[j].question_id => i = j
        /\ \A id \in UnitIds :
              LET entries == {i \in 1..Len(mem_answers') : mem_answers'[i].question_id = id} IN
              IF written'[id] = NoVal THEN entries = {}
              ELSE entries # {} /\ \A i \in entries : mem_answers'[i].answer = written'[id]
        /\ last_call'.op = "add_answer" =>
              /\ mem_section' = mem_section
              /\ \A id \in UnitIds \ {last_call'.question.question_id} :
                    {mem_answers'[i] : i \in {k \in 1..Len(mem_answers') : mem_answers'[k].question_id = id}}
                    = {mem_answers[i] : i \in {k \in 1..Len(mem_answers) : mem_answers[k].question_id = id}}
      ]_vars

\* the entry added first is answered again, after another id was added
C19_Witness ==
    /\ last_call.op = "add_answer"
    /\ Len(mem_answers) = 2
    /\ mem_answers[1].question_id = last_call.question.question_id
    /\ mem_answers[1].answer = last_call.answer
    /\ mem_answers[1].answer # mem_answers[2].answer

\* C20 as claimed: get_answers_by_ids(ids) returns exactly the stored answers
\* whose id is in ids, in ascending order of the numeric sort key, whatever
\* the order of ids.
C20_ByIdsSortedByKey ==
    [][ last_call'.op = "get_answers_by_ids" =>
          LET ids == last_call'.ids
              result == last_call'.entries
          IN /\ {result[k] : k \in 1..Len(result)} =
                   {mem_answers[i] : i \in {j \in 1..Len(mem_answers) :
                       \E k \in 1..Len(ids) : ids[k] = mem_answers[j].question_id}}
             /\ \A k \in 1..(Len(result) - 1) :
                   ~TupleLess(_sort_key(result[k + 1].question_id), _sort_key(result[k].question_id))
      ]_vars

\* C20 as amended: get_answers_by_ids(ids) returns, for each id of ids in
\* the order of ids (an id listed twice twice), the stored answer of that
\* id, leaving out the ids that have none.
C20_ByIdsInInputOrder ==
    [][ last_call'.op = "get_answers_by_ids" =>
          LET present == SelectSeq(last_call'.ids,
                                   LAMBDA id : \E i \in 1..Len(mem_answers) :
                                                  mem_answers[i].question_id = id)
              result == last_call'.entries
          IN /\ Len(result) = Len(present)
             /\ \A k \in 1..Len(result) :
                   /\ result[k].question_id = present[k]
                   /\ \E i \in 1..Len(mem_answers) : mem_answers[i] = result[k]
      ]_vars

\* asked for ["7.1", "7"] with both stored: the answer of 7.1 comes first
C20_Witness ==
    /\ last_call.op = "get_answers_by_ids"
    /\ last_call.ids = << <<"7", ".", "1">>, <<"7">> >>
    /\ Len(last_call.entries) = 2
    /\ last_call.entries[1].question_id = <<"7", ".", "1">>
    /\ last_call.entries[2].question_id = <<"7">>

\* what the ids and range bounds explored stand for: the integer of the
\* first segment (-1: not an integer), the integer a bound parses to, and
\* the place of an id in "7" < "7.2" < "7.10" < "8" < every unparseable id
FirstSegmentOf(id) ==
    CASE id = <<"7">> -> 7 [] id = <<"7", ".", "2">> -> 7 [] id = <<"7", ".", "1", "0">> -> 7
      [] id = <<"8">> -> 8 [] id = <<"7", ".", "x">> -> 7 [] id = <<"x">> -> -1
BoundOf(text) ==
    CASE text = <<"7">> -> 7 [] text = <<"8">> -> 8 [] text = <<"1", "0">> -> 10
      [] text = <<"x">> -> -1 [] text = <<>> -> -1
PlaceOf(id) ==
    CASE id = <<"7">> -> 1 [] id = <<"7", ".", "2">> -> 2 [] id = <<"7", ".", "1", "0">> -> 3
      [] id = <<"8">> -> 4 [] id = <<"7", ".", "x">> -> 5 [] id = <<"x">> -> 5

\* C21: get_answers_in_range(start, end) returns exactly the stored answers
\* whose id's first dot-segment is an integer within [start, end], each
\* once, in ascending order of the sort key; an id whose first segment is
\* not an integer is left out; with start > end or a bound that is not an
\* integer the result is empty; the memory is left as it was.
C21_RangeIsInclusiveAndSorted ==
    [][ last_call'.op = "get_answers_in_range" =>
          LET lo == BoundOf(last_call'.start_id)
              hi == BoundOf(last_call'.end_id)
              result == last_call'.entries
              expected == IF lo = -1 \/ hi = -1 THEN {}
                          ELSE {i \in 1..Len(mem_answers) :
                                  /\ FirstSegmentOf(mem_answers[i].question_id) # -1
                                  /\ lo <= FirstSegmentOf(mem_answers[i].question_id)
                                  /\ FirstSegmentOf(mem_answers[i].question_id) <= hi}
          IN /\ {result[k] : k \in 1..Len(result)} = {mem_answers[i] : i \in expected}
             /\ Len(result) = Cardinality(expected)
             /\ \A k \in 1..(Len(result) - 1) :
                   PlaceOf(result[k].question_id) <= PlaceOf(result[k + 1].question_id)
             /\ (lo > hi) => result = <<>>
             /\ mem_answers' = mem_answers
      ]_vars

\* the memory was filled with 8, x, 7.10 in that order; the range 7 to 8
\* gives 7.10, then 8
C21_Witness ==
    /\ last_call.op = "get_answers_in_range"
    /\ last_call.start_id = <<"7">> /\ last_call.end_id = <<"8">>
    /\ Len(mem_answers) = 3
    /\ mem_answers[1].question_id = <<"8">>
    /\ mem_answers[2].question_id = <<"x">>
    /\ mem_answers[3].question_id = <<"7", ".", "1", "0">>
    /\ Len(last_call.entries) = 2
    /\ last_call.entries[1].question_id = <<"7", ".", "1", "0">>
    /\ last_call.entries[2].question_id = <<"8">>

\* C22: the sort key orders dotted-integer ids by their integer segments,
\* "7" < "7.2" < "7.10" < "8": of two different such ids exactly one has
\* the smaller key, and it is the one that comes first in that order; the
\* key of an id with a segment that is no integer is greater than every
\* such key. get_all_answers returns every entry once, in ascending key
\* order, so that every unparseable id comes after every parseable one, and
\* so does get_answers_in_range.
C22_SortKeyOrdersBySegments ==
    [][ last_call'.op \in {"get_all_answers", "get_answers_in_range"} =>
          LET result == last_call'.entries
              key(i) == _sort_key(mem_answers[i].question_id)
              place(i) == PlaceOf(mem_answers[i].question_id)
          IN /\ last_call'.op = "get_all_answers" =>
                   \A i, j \in 1..Len(mem_answers) :
                      /\ (place(i) < place(j)) => (TupleLess(key(i), key(j)) /\ ~TupleLess(key(j), key(i)))
                      /\ (place(i) = place(j)) => (~TupleLess(key(i), key(j)) /\ ~TupleLess(key(j), key(i)))
             /\ \A k, l \in 1..Len(result) :
                   (k < l) => PlaceOf(result[k].question_id) <= PlaceOf(result[l].question_id)
             /\ \A k, l \in 1..Len(result) :
                   (PlaceOf(result[k].question_id) = 5 /\ PlaceOf(result[l].question_id) < 5) => l < k
             /\ last_call'.op = "get_all_answers" =>
                   /\ Len(result) = Len(mem_answers)
                   /\ {result[k] : k \in 1..Len(result)} = {mem_answers[i] : i \in 1..Len(mem_answers)}
      ]_vars

\* the memory was filled with x, 7.10, 7.2 in that order; get_all_answers
\* gives 7.2, 7.10, x
C22_Witness ==
    /\ last_call.op = "get_all_answers"
    /\ Len(mem_answers) = 3
    /\ mem_answers[1].question_id = <<"x">>
    /\ mem_answers[2].question_id = <<"7", ".", "1", "0">>
    /\ mem_answers[3].question_id = <<"7", ".", "2">>
    /\ Len(last_call.entries) = 3
    /\ last_call.entries[1].question_id = <<"7", ".", "2">>
    /\ last_call.entries[2].question_id = <<"7", ".", "1", "0">>
    /\ last_call.entries[3].question_id = <<"x">>

\* the number of separators in an id
DotCount(id) == Cardinality({i \in 1..Len(id) : id[i] = "."})

RatingIn(text) ==
    CASE text = RatingThreeText -> 3 [] text = RatingThreeExplained -> 3
      [] text = RatingEleven -> 11 [] text = RatingZero -> 0
      [] text = SevenDot -> 7 [] text = TwoThenWhy -> 2
      [] OTHER -> -1

\* a rating as it appears in an answer: 'Not Found' (0) or within the options
RatingWithin(n, options) == n = 0 \/ n \in 1..Len(options)

\* C24: _parse_rating_response returns ("Not Found", "", "") for an empty
\* or NOT_FOUND text and for a text without a rating, ("Not Found", "",
\* "Invalid rating: <n>") for a rating n outside [1, len(options)], and
\* otherwise (n, options[n-1], explanation); format_answer of a
\* rating_scale_1_to_5 question with options gives "Not Found" or an integer
\* within the options, of a rating_scale_1_to_9 question with options a
\* degree_alleged and a degree_suffered that are each "Not Found" or such an
\* integer.
C24_RatingParseIsTotalAndInRange ==
    [][ /\ last_call'.op = "_parse_rating_response" =>
              LET n == RatingIn(last_call'.text)
                  options == last_call'.options
                  parsed == last_call'.parsed
              IN /\ (last_call'.text \in {EmptyText, NOT_FOUND} \/ n = -1) =>
                       parsed = [rating |-> 0, option |-> <<>>, explanation |-> <<>>]
                 /\ (n # -1 /\ n \notin 1..Len(options)) =>
                       /\ parsed.rating = 0 /\ parsed.option = <<>>
                       /\ Len(parsed.explanation) > 16
                       /\ SubSeq(parsed.explanation, 1, 16) =
                             <<"I","n","v","a","l","i","d"," ","r","a","t","i","n","g",":"," ">>
                       /\ DigitsValue(SubSeq(parsed.explanation, 17, Len(parsed.explanation))) = n
                 /\ (n \in 1..Len(options)) =>
                       parsed.rating = n /\ parsed.option = options[n]
        /\ (last_call'.op = "format_answer"
              /\ last_call'.question.question_type = "rating_scale_1_to_5") =>
              \/ last_call'.answer = StrVal(NotFoundText)
              \/ /\ last_call'.answer.kind = "int"
                 /\ last_call'.answer.n \in 1..Len(last_call'.options)
                 /\ last_call'.answer.n = RatingIn(last_call'.raw.text)
        /\ (last_call'.op = "format_answer"
              /\ last_call'.question.question_type = "rating_scale_1_to_9") =>
              /\ last_call'.answer.kind = "dict"
              /\ RatingWithin(last_call'.answer.degree_alleged, last_call'.options)
              /\ RatingWithin(last_call'.answer.degree_suffered, last_call'.options)
      ]_vars

\* "rating:11" against nine options: ("Not Found", "", "Invalid rating: 11")
C24_Witness ==
    /\ last_call.op = "_parse_rating_response"
    /\ last_call.text = RatingEleven
    /\ Len(last_call.options) = 9
    /\ last_call.parsed.rating = 0
    /\ last_call.parsed.explanation =
          <<"I","n","v","a","l","i","d"," ","r","a","t","i","n","g",":"," ","1","1">>

\* the options each choice text explored names, whatever the case
NamedIn(text) ==
    CASE text = EfAndAb -> {OptionAb, OptionEf} [] text = OptionCd -> {OptionCd} [] OTHER -> {}

\* parts separated by a comma and a space
RECURSIVE CommaSeparated(_)
CommaSeparated(parts) ==
    IF Len(parts) = 1 THEN parts[1]
    ELSE parts[1] \o <<",", " ">> \o CommaSeparated(Tail(parts))

\* C25: for a checkbox_group (multi-choice) question with options,
\* format_answer gives the options that are, ignoring case, substrings of
\* the answer text, every one of them, in the order of response_options and
\* not in the order of the text, joined with ", "; when the text names no
\* option the answer is "Not Found".
C25_MultiChoiceInOptionOrder ==
    [][ (last_call'.op = "format_answer"
           /\ last_call'.question.question_type = "checkbox_group"
           /\ last_call'.options # <<>>) =>
          LET selected == SelectSeq(last_call'.options,
                                    LAMBDA o : o \in NamedIn(last_call'.raw.text))
          IN last_call'.answer =
                IF selected = <<>> THEN StrVal(NotFoundText)
                ELSE StrVal(CommaSeparated(selected))
      ]_vars

\* options ["Ab", "Ef"], text "ef and AB": the answer is "Ab, Ef"
C25_Witness ==
    /\ last_call.op = "format_answer"
    /\ last_call.question.question_type = "checkbox_group"
    /\ last_call.options = <<OptionAb, OptionEf>>
    /\ last_call.raw.text = EfAndAb
    /\ last_call.answer = StrVal(<<"A","b",",", " ","E","f">>)

\* the position in the file's list of the k-th item that is an object
ObjectAt(k) ==
    CHOOSE i \in 1..Len(raw_questions) :
        /\ raw_questions[i].type = "dict"
        /\ Cardinality({j \in 1..i : raw_questions[j].type = "dict"}) = k

C27_StatisticsAgreeWithRecords ==
    pc = "done" =>
        LET summary == _print_summary(all_results, stats)
            records == 1..Len(all_results)
        IN /\ summary.answered + summary.not_found + summary.skipped = Len(all_results)
           /\ summary.skipped = Cardinality({i \in records : all_results[i].status = "skipped"})
           /\ summary.skipped = stats.questions_skipped
           /\ summary.not_found = Cardinality({i \in records : FoundNothing(all_results[i])})
           /\ summary.with_context = UsedContextCount(all_results)

\* the records emitted so far for an id on the pages of the current section
RecordsOf(id) ==
    {j \in 1..Len(Records) : Records[j].question_id = id /\ InCurrentSection(Records[j])}

\* C28: at every point of a run each memory entry carries the answer field
\* of the most recent record emitted for its id in the current section, and
\* that answer is a string, as the substring test of the skip check and the
\* context text need it.
C28_MemoryHoldsFormattedString ==
    \A i \in 1..Len(mem_answers) :
       LET emitted == RecordsOf(mem_answers[i].question_id) IN
       /\ emitted # {}
       /\ mem_answers[i].answer =
             Records[CHOOSE j \in emitted : \A k \in emitted : k <= j].answer
       /\ mem_answers[i].answer.kind = "str"

\* the ids the docstring of extract_parent_chain gives for "7.2", "7.3" and
\* "7.2.1": the parent and the earlier siblings
DocumentedChain(id) ==
    CASE id = <<"7", ".", "2">> -> << <<"7">>, <<"7", ".", "1">> >>
      [] id = <<"7", ".", "3">> -> << <<"7">>, <<"7", ".", "1">>, <<"7", ".", "2">> >>
      [] id = <<"7", ".", "2", ".", "1">> ->
            << <<"7">>, <<"7", ".", "1">>, <<"7", ".", "2">> >>
      [] OTHER -> <<>>

\* C29: the parent chain of a sub-question includes its earlier siblings,
\* "7.2" giving ["7", "7.1"], "7.3" giving ["7", "7.1", "7.2"] and "7.2.1"
\* giving ["7", "7.1", "7.2"], and so the chain context of "7.3" holds the
\* stored answer of its sibling "7.2".
C29_ChainIncludesEarlierSiblings ==
    [][ /\ last_call'.op = "extract_parent_chain"
           /\ DocumentedChain(last_call'.ids[1]) # <<>>
           => last_call'.chain = DocumentedChain(last_call'.ids[1])
        /\ last_call'.op = "get_context"
           /\ last_call'.question.question_id = <<"7", ".", "3">>
           /\ HasAnswer(Mem, <<"7", ".", "2">>)
           => \E i \in 1..Len(last_call'.context.entries) :
                 last_call'.context.entries[i].question_id = <<"7", ".", "2">>
      ]_vars

\* the record at position j was made in the same visit of a section as the
\* one at position k: every record from j to k carries one section name
SameVisit(j, k) == \A m \in j..k : Records[m].section_name = Records[k].section_name

\* an answer for one of ids was recorded before position k in the visit that
\* position k belongs to
AnsweredInVisit(ids, k) ==
    \E j \in 1..(k - 1) :
       /\ Records[j].question_id \in ids
       /\ Records[j].answer # StrVal(SKIPPED)
       /\ SameVisit(j, k)

\* C30: the memory of a section is not restored when the run comes back to
\* it. A question is skipped, or is given a context, only on account of an
\* answer recorded earlier in the same visit of its section, the memory holds
\* only answers recorded in the visit under way, and so on the last page of
\* a run through sections A, B, A a conditional child whose parent was
\* answered on the first page is not skipped.
C30_MemoryNotRestoredOnReentry ==
    /\ \A k \in 1..Len(Records) :
          LET question == all_questions[Records[k].index] IN
          /\ Records[k].answer = StrVal(SKIPPED)
                => AnsweredInVisit({question.conditional_display.parent_question_id}, k)
          /\ Records[k].used_context
                => AnsweredInVisit({ extract_parent_chain(question.question_id)[i] :
                                       i \in 1..Len(extract_parent_chain(question.question_id)) }, k)
    /\ \A i \in 1..Len(mem_answers) :
          \E j \in 1..Len(Records) :
             /\ Records[j].question_id = mem_answers[i].question_id
             /\ Records[j].answer = mem_answers[i].answer
             /\ SameVisit(j, Len(Records))
             /\ Records[j].section_name = mem_section
    /\ pc = "question_error"
          => \E j \in 1..Len(Records) :
                /\ SameVisit(j, Len(Records))
                /\ Records[j].section_name = all_questions[started[Len(started)]].section_name
                /\ Records[j].question_id =
                      all_questions[started[Len(started)]].conditional_display.parent_question_id

\* sections A, B, A: "7" answered "No" on page 1, and "7.1", displayed only
\* when "7" is "Yes", answered on page 3 without a context
C30_Witness ==
    /\ pc = "done"
    /\ Len(all_results) = 3
    /\ all_results[1].section_name = "A" /\ all_results[1].question_id = <<"7">>
    /\ all_results[1].answer = StrVal(NoText)
    /\ all_results[2].section_name = "B"
    /\ all_results[3].section_name = "A" /\ all_results[3].question_id = <<"7", ".", "1">>
    /\ all_results[3].answer = StrVal(YesText)
    /\ ~all_results[3].used_context
    /\ stats.questions_skipped = 0

====
